---- MODULE Spec2Model ----
(***************************************************************************)
(* A model of boyfriend, an optimizing brainf*ck toolchain: the bracket    *)
(* verifier, the parser (compile), run fusion (optimize_pass_1), idiom     *)
(* recognition (optimize_pass_2), the bracket matcher and the interpreter. *)
(*                                                                         *)
(* Indices are 0-based as in the source; At(s, i) reads element i of a     *)
(* TLA+ sequence.  The tape (vec![0u8; 0x10000]) is held as the function   *)
(* of its non-zero cells: a cell outside the domain holds 0.               *)
(***************************************************************************)
EXTENDS Integers, Sequences, FiniteSets, TLC

VARIABLES
    code,             \* the source text, a sequence of one-character strings
    overflow_checks,  \* build profile: TRUE panics on integer overflow, FALSE wraps
    pc,               \* the driver's position in moonshine_impl
    ir,               \* the IR sequence (a ChunkList: a sequence of chunks)
    pruned,           \* the count the last pass reported
    err,              \* the diagnostic of a failed stage
    stdin,            \* the bytes standard input held when interpretation started
    memory,           \* interpreter: non-zero tape cells
    ptr,              \* interpreter: tape pointer
    ip,               \* interpreter: instruction pointer
    out,              \* interpreter: bytes written to standard output
    inp,              \* interpreter: bytes of standard input not yet read
    touched,          \* interpreter: tape indices the last step read or wrote
    insts,            \* interpreter: the flat instruction vector being run
    backend,          \* driver: the backend the command line selects
    listing,          \* the assembly text to_asm has written, one element per line
    stack,            \* emitted assembly: return addresses pushed by call
    chunk_cap,        \* ChunkList: the chunk size the list was built with
    idx               \* optimizer: the cursor of the pass that is running

vars == <<code, overflow_checks, pc, ir, pruned, err, stdin,
          memory, ptr, ip, out, inp, touched, insts, backend, listing, stack,
          chunk_cap, idx>>

(***************************************************************************)
(* Program constants                                                       *)
(***************************************************************************)
I8_MAX == 127
I8_MIN == -128
TapeSize == 65536
ChunkSize == 2048
Anchor == 255

(***************************************************************************)
(* Bounds of the model                                                     *)
(***************************************************************************)
MaxFrags == 2
Fuel == 16

(***************************************************************************)
(* Helpers                                                                 *)
(***************************************************************************)
At(s, i) == s[i + 1]

SetAt(s, i, v) == [s EXCEPT ![i + 1] = v]

RemoveAt(s, i) == SubSeq(s, 1, i) \o SubSeq(s, i + 2, Len(s))

Rep(c, n) == [i \in 1..n |-> c]

RECURSIVE Flatten(_)
Flatten(ss) == IF ss = <<>> THEN <<>> ELSE Head(ss) \o Flatten(Tail(ss))

\* eight turns of a loop body F; the bodies below leave a finished state as it
\* is, so a loop is run eight turns at a time until it has finished
Iter8(F(_), s) == F(F(F(F(F(F(F(F(s))))))))

Count(v, P(_)) == Cardinality({k \in 1..Len(v) : P(v[k])})

SetMin(S) == CHOOSE x \in S : \A y \in S : x <= y

SetMax(S) == CHOOSE x \in S : \A y \in S : x >= y

\* two's-complement wrap of an integer into i8, as a release build computes it
WrapI8(x) == ((x + 128) % 256) - 128

\* wrap of an integer into u8
WrapU8(x) == x % 256

(***************************************************************************)
(* IR (ir.rs enum IR; LoopStart/LoopEnd carry the matcher's indices as in  *)
(* interpret.rs)                                                           *)
(***************************************************************************)
Unresolved == -1

Shift(a) == [op |-> "Shift", amount |-> a]
Arithmetic(a) == [op |-> "Arithmetic", amount |-> a]
LoopStart == [op |-> "LoopStart", end_index |-> Unresolved]
LoopEnd == [op |-> "LoopEnd", start_index |-> Unresolved]
Input == [op |-> "Input"]
Output == [op |-> "Output"]
Zero == [op |-> "Zero"]
Multiply(a, o) == [op |-> "Multiply", amount |-> a, output_offset |-> o]
Move(o) == [op |-> "Move", output_offset |-> o]
AnchorRight == [op |-> "AnchorRight"]
AnchorLeft == [op |-> "AnchorLeft"]

IsShift(x) == x.op = "Shift"
IsArithmetic(x) == x.op = "Arithmetic"
IsLoopStart(x) == x.op = "LoopStart"
IsLoopEnd(x) == x.op = "LoopEnd"

(***************************************************************************)
(* ChunkList (chunk_list.rs): a vector of vectors                          *)
(***************************************************************************)
RECURSIVE chunks_of(_, _)
chunks_of(v, chunk_size) ==
    IF v = <<>> THEN <<>>
    ELSE IF Len(v) <= chunk_size THEN <<v>>
    ELSE <<SubSeq(v, 1, chunk_size)>> \o chunks_of(SubSeq(v, chunk_size + 1, Len(v)), chunk_size)

ChunkList_new(chunk_me, chunk_size) == chunks_of(chunk_me, chunk_size)

\* the loop of get_real_index from chunk number cn with residual index
RECURSIVE get_real_index_from(_, _, _)
get_real_index_from(chunks, cn, index) ==
    IF cn < Len(chunks) /\ Len(At(chunks, cn)) <= index
    THEN get_real_index_from(chunks, cn + 1, index - Len(At(chunks, cn)))
    ELSE <<cn, index>>

get_real_index(chunks, index) == get_real_index_from(chunks, 0, index)

RECURSIVE ChunkList_len(_)
ChunkList_len(chunks) ==
    IF chunks = <<>> THEN 0 ELSE Len(Head(chunks)) + ChunkList_len(Tail(chunks))

ChunkList_index(chunks, index) ==
    LET ri == get_real_index(chunks, index)
    IN  At(At(chunks, ri[1]), ri[2])

ChunkList_index_mut(chunks, index, v) ==
    LET ri == get_real_index(chunks, index)
    IN  SetAt(chunks, ri[1], SetAt(At(chunks, ri[1]), ri[2], v))

\* mutant: the last element of the located chunk is removed
ChunkList_remove_last(chunks, index) ==
    LET ri == get_real_index(chunks, index)
        shrunk == SubSeq(At(chunks, ri[1]), 1, Len(At(chunks, ri[1])) - 1)
    IN  IF shrunk = <<>> THEN RemoveAt(chunks, ri[1])
        ELSE SetAt(chunks, ri[1], shrunk)

\* mutant: a chunk that has become empty stays in the list
ChunkList_remove_keep_empty(chunks, index) ==
    LET ri == get_real_index(chunks, index)
    IN  SetAt(chunks, ri[1], RemoveAt(At(chunks, ri[1]), ri[2]))

ChunkList_remove(chunks, index) ==
    LET ri == get_real_index(chunks, index)
        shrunk == RemoveAt(At(chunks, ri[1]), ri[2])
    IN  IF shrunk = <<>> THEN RemoveAt(chunks, ri[1])
        ELSE SetAt(chunks, ri[1], shrunk)

into_iter(chunks) == Flatten(chunks)

(***************************************************************************)
(* compile (ir.rs 51-69)                                                   *)
(***************************************************************************)
\* mutant: the arm for ',' pushes nothing
is_instruction_no_input(inst) == inst \in {">", "<", "+", "-", "[", "]", "."}

\* the arms of the match that push an instruction
is_instruction(inst) == inst \in {">", "<", "+", "-", "[", "]", ",", "."}

lower(inst) ==
    CASE inst = ">" -> Shift(1)
      [] inst = "<" -> Shift(-1)
      [] inst = "+" -> Arithmetic(1)
      [] inst = "-" -> Arithmetic(-1)
      [] inst = "[" -> LoopStart
      [] inst = "]" -> LoopEnd
      [] inst = "," -> Input
      [] inst = "." -> Output

\* for inst in code.chars(): push the instruction of inst, skip a comment
compile_chars(cs) ==
    LET kept == SelectSeq(cs, is_instruction)
    IN  [k \in 1..Len(kept) |-> lower(kept[k])]

compile(cs) == ChunkList_new(compile_chars(cs), ChunkSize)

(***************************************************************************)
(* verify: the bracket verifier called at main.rs 94.  A signed counter    *)
(* goes up on '[' and down on ']'; the check fails when it ends non-zero   *)
(* and reports the magnitude and the side.                                 *)
(***************************************************************************)
\* the scan's step on character i
verify_step(cs, v) ==
    IF ~(v.i < Len(cs)) THEN v
    ELSE [i |-> v.i + 1,
          counter |-> IF At(cs, v.i) = "[" THEN v.counter + 1
                      ELSE IF At(cs, v.i) = "]" THEN v.counter - 1
                      ELSE v.counter]

RECURSIVE verify_scan(_, _)
verify_scan(cs, v) ==
    IF ~(v.i < Len(cs)) THEN v
    ELSE verify_scan(cs, Iter8(LAMBDA t : verify_step(cs, t), v))

verify_count(cs) == verify_scan(cs, [i |-> 0, counter |-> 0]).counter

verify(cs) ==
    LET counter == verify_count(cs)
    IN  IF counter = 0 THEN [ok |-> TRUE, n |-> 0, side |-> "none"]
        ELSE IF counter > 0 THEN [ok |-> FALSE, n |-> counter, side |-> "opening"]
        ELSE [ok |-> FALSE, n |-> -counter, side |-> "closing"]

(***************************************************************************)
(* optimize_pass_1 (ir.rs 72-108): collapse repeated shift & arithmetic    *)
(***************************************************************************)
\* i8 addition: a build with overflow checks panics when the sum leaves
\* -128..127, a build without them wraps
I8Add(a, b, checks) ==
    IF a + b > I8_MAX \/ a + b < I8_MIN
    THEN IF checks THEN [panic |-> TRUE, val |-> 0]
         ELSE [panic |-> FALSE, val |-> WrapI8(a + b)]
    ELSE [panic |-> FALSE, val |-> a + b]

\* mutant: the guard compares against i8::MIN
fusion_guard_min(sum) == sum < I8_MIN

\* the match guard of the Arithmetic arm: *amt1 + amt2 < i8::MAX
fusion_guard(sum) == sum < I8_MAX

\* for prune_idx in to_prune.drain(0..).rev() { ir.remove(prune_idx) }
RECURSIVE prune_rev(_, _)
prune_rev(chunks, to_prune) ==
    IF to_prune = <<>> THEN chunks
    ELSE prune_rev(ChunkList_remove(chunks, to_prune[Len(to_prune)]),
                   SubSeq(to_prune, 1, Len(to_prune) - 1))

\* mutant: every iteration that removes counts one removal
pass1_prune_miscount(s, chunks, to_prune) ==
    [s EXCEPT !.ir = prune_rev(chunks, to_prune),
              !.pruned = s.pruned + 1]

\* the tail of one loop iteration: count and apply the pending removals
pass1_prune(s, chunks, to_prune) ==
    [s EXCEPT !.ir = prune_rev(chunks, to_prune),
              !.pruned = s.pruned + Len(to_prune)]

\* the Shift arm: *amt1 += amt2; to_prune.push(idx + 1)
pass1_shift_arm(s, cur, next) ==
    pass1_prune(s, ChunkList_index_mut(s.ir, s.idx, Shift(cur.amount + next.amount)),
                <<s.idx + 1>>)

\* mutant: a zero sum stays in place
pass1_arith_arm_keep_zero(s, sum) ==
    pass1_prune(s, ChunkList_index_mut(s.ir, s.idx, Arithmetic(sum)), <<s.idx + 1>>)

\* the Arithmetic arm: *amt1 += amt2; zero drops the current too
pass1_arith_arm(s, sum) ==
    pass1_prune(s, ChunkList_index_mut(s.ir, s.idx, Arithmetic(sum)),
                IF sum = 0 THEN <<s.idx, s.idx + 1>> ELSE <<s.idx + 1>>)

\* the fall-through arm: idx += 1
pass1_advance(s) == [s EXCEPT !.idx = s.idx + 1]

\* one iteration of the while loop
pass1_step(s, checks) ==
    IF s.status # "running" THEN s
    ELSE IF ~(s.idx < ChunkList_len(s.ir)) THEN [s EXCEPT !.status = "done"]
    ELSE IF ~(s.idx + 1 < ChunkList_len(s.ir)) THEN [s EXCEPT !.status = "done"]
    ELSE LET next == ChunkList_index(s.ir, s.idx + 1)
             cur == ChunkList_index(s.ir, s.idx)
         IN  IF IsShift(cur) /\ IsShift(next) THEN pass1_shift_arm(s, cur, next)
             ELSE IF IsArithmetic(cur) /\ IsArithmetic(next)
             THEN LET g == I8Add(cur.amount, next.amount, checks)
                  IN  IF g.panic THEN [s EXCEPT !.status = "panic"]
                      ELSE IF fusion_guard(g.val) THEN pass1_arith_arm(s, g.val)
                      ELSE pass1_advance(s)
             ELSE pass1_advance(s)

RECURSIVE pass1_run(_, _)
pass1_run(s, checks) ==
    IF s.status # "running" THEN s
    ELSE pass1_run(Iter8(LAMBDA t : pass1_step(t, checks), s), checks)

optimize_pass_1(chunks, checks) ==
    pass1_run([ir |-> chunks, idx |-> 0, pruned |-> 0, status |-> "running"], checks)

(***************************************************************************)
(* optimize_pass_2 (ir.rs 111-182): collapse idioms                        *)
(***************************************************************************)
\* mutant: the splice leaves the last element of the window in place
pass2_splice_short(s, replacement, n) ==
    [s EXCEPT !.ir = prune_rev(ChunkList_index_mut(s.ir, s.idx, replacement),
                               [k \in 1..(n - 1) |-> s.idx + k]),
              !.pruned = s.pruned + n]

\* ir[idx] = replacement; ir.remove(idx + n) ... ir.remove(idx + 1); pruned += n
pass2_splice(s, replacement, n) ==
    [s EXCEPT !.ir = prune_rev(ChunkList_index_mut(s.ir, s.idx, replacement),
                               [k \in 1..n |-> s.idx + k]),
              !.pruned = s.pruned + n]

\* the shape shared by the Move and Multiply arms, with the guard ofs1 == -ofs2
loop_shape6(w) ==
    /\ IsLoopStart(w[1]) /\ IsShift(w[2]) /\ IsArithmetic(w[3])
    /\ IsShift(w[4]) /\ IsArithmetic(w[5]) /\ w[5].amount = -1 /\ IsLoopEnd(w[6])
    /\ w[2].amount = -(w[4].amount)

is_move(w) == loop_shape6(w) /\ w[3].amount = 1

\* Arithmetic { amount: amt @ 0.. }
is_multiply(w) == loop_shape6(w) /\ w[3].amount >= 0

\* (LoopStart, Arithmetic -1, Shift dir @ (1 | -1), Arithmetic 1, LoopEnd)
is_anchor(w) ==
    /\ IsLoopStart(w[1]) /\ IsArithmetic(w[2]) /\ w[2].amount = -1
    /\ IsShift(w[3]) /\ w[3].amount \in {1, -1}
    /\ IsArithmetic(w[4]) /\ w[4].amount = 1 /\ IsLoopEnd(w[5])

\* (LoopStart, Arithmetic { .. }, LoopEnd)
is_zero(w) == IsLoopStart(w[1]) /\ IsArithmetic(w[2]) /\ IsLoopEnd(w[3])

window(chunks, from, n) == [k \in 1..n |-> ChunkList_index(chunks, from + k - 1)]

\* if (idx + 5) < ir.len() { match 6 elements }
pass2_check6(s) ==
    IF s.idx + 5 < ChunkList_len(s.ir)
    THEN LET w == window(s.ir, s.idx, 6)
         IN  IF is_move(w) THEN pass2_splice(s, Move(w[2].amount), 5)
             ELSE IF is_multiply(w)
                  THEN pass2_splice(s, Multiply(w[3].amount, w[2].amount), 5)
             ELSE s
    ELSE s

\* if (idx + 4) < ir.len() { match 5 elements }
pass2_check5(s) ==
    IF s.idx + 4 < ChunkList_len(s.ir)
    THEN LET w == window(s.ir, s.idx, 5)
         IN  IF is_anchor(w)
             THEN pass2_splice(s, IF w[3].amount = 1 THEN AnchorRight ELSE AnchorLeft, 4)
             ELSE s
    ELSE s

\* mutant: the length guard of the 3-element window is off by one
pass2_check3_off_by_one(s) ==
    IF s.idx + 3 < ChunkList_len(s.ir)
    THEN LET w == window(s.ir, s.idx, 3)
         IN  IF is_zero(w) THEN pass2_splice(s, Zero, 2) ELSE s
    ELSE s

\* if (idx + 2) < ir.len() { match 3 elements }
pass2_check3(s) ==
    IF s.idx + 2 < ChunkList_len(s.ir)
    THEN LET w == window(s.ir, s.idx, 3)
         IN  IF is_zero(w) THEN pass2_splice(s, Zero, 2) ELSE s
    ELSE s

\* one iteration of the while loop: the three checks in order, then idx += 1
pass2_step(s) ==
    IF s.status # "running" THEN s
    ELSE IF ~(s.idx < ChunkList_len(s.ir)) THEN [s EXCEPT !.status = "done"]
    ELSE LET t == pass2_check3(pass2_check5(pass2_check6(s)))
         IN  [t EXCEPT !.idx = t.idx + 1]

RECURSIVE pass2_run(_)
pass2_run(s) == IF s.status # "running" THEN s ELSE pass2_run(Iter8(pass2_step, s))

optimize_pass_2(chunks) ==
    pass2_run([ir |-> chunks, idx |-> 0, pruned |-> 0, status |-> "running"])

(***************************************************************************)
(* match_brackets: the bracket matcher called at main.rs 100.  From every  *)
(* unresolved LoopStart at i it scans forward with a depth counter that    *)
(* starts at 1; the LoopEnd that brings it to zero is the partner, and     *)
(* both ends are resolved.  A scan that leaves the sequence fails.         *)
(***************************************************************************)
NotFound == -1

\* one step of the forward scan: sc.j is the position, sc.depth the counter,
\* sc.found the partner once the counter has reached zero
match_scan_step(chunks, sc) ==
    IF sc.done THEN sc
    ELSE IF ~(sc.j < ChunkList_len(chunks)) THEN [sc EXCEPT !.done = TRUE]
    ELSE LET x == ChunkList_index(chunks, sc.j)
         IN  IF IsLoopStart(x) THEN [sc EXCEPT !.j = sc.j + 1, !.depth = sc.depth + 1]
             ELSE IF IsLoopEnd(x)
                  THEN IF sc.depth - 1 = 0 THEN [sc EXCEPT !.found = sc.j, !.done = TRUE]
                       ELSE [sc EXCEPT !.j = sc.j + 1, !.depth = sc.depth - 1]
             ELSE [sc EXCEPT !.j = sc.j + 1]

RECURSIVE match_scan_run(_, _)
match_scan_run(chunks, sc) ==
    IF sc.done THEN sc
    ELSE match_scan_run(chunks, Iter8(LAMBDA t : match_scan_step(chunks, t), sc))

match_scan(chunks, i) ==
    match_scan_run(chunks, [j |-> i + 1, depth |-> 1, found |-> NotFound, done |-> FALSE]).found

resolve(chunks, i, j) ==
    ChunkList_index_mut(
        ChunkList_index_mut(chunks, i, [op |-> "LoopStart", end_index |-> j]),
        j, [op |-> "LoopEnd", start_index |-> i])

\* the outer walk: m.i is the position, m.ok turns FALSE at m.at when a scan
\* from there finds no partner
match_step(m) ==
    IF m.done THEN m
    ELSE IF ~(m.i < ChunkList_len(m.ir)) THEN [m EXCEPT !.done = TRUE]
    ELSE LET x == ChunkList_index(m.ir, m.i)
         IN  IF IsLoopStart(x) /\ x.end_index = Unresolved
             THEN LET j == match_scan(m.ir, m.i)
                  IN  IF j = NotFound
                      THEN [m EXCEPT !.ok = FALSE, !.at = m.i, !.done = TRUE]
                      ELSE [m EXCEPT !.ir = resolve(m.ir, m.i, j), !.i = m.i + 1]
             ELSE [m EXCEPT !.i = m.i + 1]

RECURSIVE match_run(_)
match_run(m) == IF m.done THEN m ELSE match_run(Iter8(match_step, m))

match_brackets(chunks) ==
    match_run([ir |-> chunks, i |-> 0, ok |-> TRUE, at |-> NotFound, done |-> FALSE])

(***************************************************************************)
(* interpret (interpret.rs 8-100)                                          *)
(***************************************************************************)
PtrMask == 65535

TapeGet(m, i) == IF i \in DOMAIN m THEN m[i] ELSE 0

TapeSet(m, i, v) ==
    IF v = 0 THEN [j \in (DOMAIN m) \ {i} |-> m[j]]
    ELSE [j \in (DOMAIN m) \cup {i} |-> IF j = i THEN v ELSE m[j]]

EmptyTape == [j \in {} |-> 0]

\* usize::overflowing_add_signed(..).0 is p + a modulo 2^64; only its low 16
\* bits are kept by the mask that follows, and 2^16 divides 2^64
overflowing_add_signed(p, a) == p + a

\* x & 0xffff
mask16(x) == x % (PtrMask + 1)

\* memchr(255, &memory[lo..hi]): offset of the first anchor byte in the slice
NoneIdx == -1

memchr(m, lo, hi) ==
    LET S == {i \in DOMAIN m : lo <= i /\ i < hi /\ m[i] = Anchor}
    IN  IF S = {} THEN NoneIdx ELSE SetMin(S) - lo

\* memrchr(255, &memory[lo..hi]): offset of the last anchor byte in the slice
memrchr(m, lo, hi) ==
    LET S == {i \in DOMAIN m : lo <= i /\ i < hi /\ m[i] = Anchor}
    IN  IF S = {} THEN NoneIdx ELSE SetMax(S) - lo

\* u8 += u8: a build with overflow checks panics above 255, the other wraps
U8AddAssign(d, v, checks) ==
    IF d + v > 255
    THEN IF checks THEN [panic |-> TRUE, val |-> 0]
         ELSE [panic |-> FALSE, val |-> WrapU8(d + v)]
    ELSE [panic |-> FALSE, val |-> d + v]

\* ptr = ptr.overflowing_add_signed(amount).0 & 0xffff
shift_ptr(p, amount) == mask16(overflowing_add_signed(p, amount))

\* memory[ptr].overflowing_add_signed(amount).0
arith_cell(v, amount) == WrapU8(v + amount)

exec_Shift(st, inst) ==
    [st EXCEPT !.ptr = shift_ptr(st.ptr, inst.amount),
               !.ip = st.ip + 1, !.touched = {}]

exec_Arithmetic(st, inst) ==
    [st EXCEPT !.memory = TapeSet(st.memory, st.ptr,
                                  arith_cell(TapeGet(st.memory, st.ptr), inst.amount)),
               !.ip = st.ip + 1, !.touched = {st.ptr}]

exec_LoopStart(st, inst) ==
    [st EXCEPT !.ip = (IF TapeGet(st.memory, st.ptr) = 0 THEN inst.end_index ELSE st.ip) + 1,
               !.touched = {st.ptr}]

exec_LoopEnd(st, inst) ==
    [st EXCEPT !.ip = (IF TapeGet(st.memory, st.ptr) # 0 THEN inst.start_index ELSE st.ip) + 1,
               !.touched = {st.ptr}]

exec_Input(st, inst) ==
    IF st.inp = <<>> THEN [st EXCEPT !.status = "no_stdin", !.touched = {}]
    ELSE [st EXCEPT !.memory = TapeSet(st.memory, st.ptr, Head(st.inp)),
                    !.inp = Tail(st.inp),
                    !.ip = st.ip + 1, !.touched = {st.ptr}]

exec_Output(st, inst) ==
    [st EXCEPT !.out = Append(st.out, TapeGet(st.memory, st.ptr)),
               !.ip = st.ip + 1, !.touched = {st.ptr}]

exec_Zero(st, inst) ==
    [st EXCEPT !.memory = TapeSet(st.memory, st.ptr, 0),
               !.ip = st.ip + 1, !.touched = {st.ptr}]

\* mutant: the destination index is not masked
dest_ptr_unmasked(p, output_offset) == overflowing_add_signed(p, output_offset)

\* new_ptr = ptr.overflowing_add_signed(output_offset).0 & 0xffff
dest_ptr(p, output_offset) == mask16(overflowing_add_signed(p, output_offset))

\* memory[new_ptr] += value; memory[ptr] = 0
add_into(st, new_ptr, value, checks) ==
    LET r == U8AddAssign(TapeGet(st.memory, new_ptr), value, checks)
    IN  IF r.panic
        THEN [st EXCEPT !.status = "overflow_panic", !.touched = {st.ptr, new_ptr}]
        ELSE [st EXCEPT !.memory = TapeSet(TapeSet(st.memory, new_ptr, r.val), st.ptr, 0),
                        !.ip = st.ip + 1, !.touched = {st.ptr, new_ptr}]

\* memory[ptr].overflowing_mul(amount as u8).0
mul_cell(v, amount) == WrapU8(v * WrapU8(amount))

exec_Multiply(st, inst, checks) ==
    add_into(st, dest_ptr(st.ptr, inst.output_offset),
             mul_cell(TapeGet(st.memory, st.ptr), inst.amount), checks)

exec_Move(st, inst, checks) ==
    add_into(st, dest_ptr(st.ptr, inst.output_offset),
             TapeGet(st.memory, st.ptr), checks)

\* mutant: an exhausted scan leaves the loop and the run succeeds
anchor_finish_break(st, mem, anchor) ==
    IF anchor = NoneIdx
    THEN [st EXCEPT !.memory = mem, !.status = "halted", !.touched = {st.ptr}]
    ELSE [st EXCEPT !.memory = TapeSet(mem, anchor, 0), !.ptr = anchor,
                    !.ip = st.ip + 1, !.touched = {st.ptr, anchor}]

\* the tail shared by both anchors once the scan has answered
anchor_finish(st, mem, anchor) ==
    IF anchor = NoneIdx
    THEN [st EXCEPT !.memory = mem, !.status = "infinite_loop", !.touched = {st.ptr}]
    ELSE [st EXCEPT !.memory = TapeSet(mem, anchor, 0), !.ptr = anchor,
                    !.ip = st.ip + 1, !.touched = {st.ptr, anchor}]

\* mutant: the right scan does not start again from cell 0
scan_right_no_wrap(mem, p) ==
    LET first == memchr(mem, p, TapeSize)
    IN  IF first # NoneIdx THEN first + p ELSE NoneIdx

\* memchr(255, &memory[ptr..]).map(|offset| offset + ptr).or_else(|| memchr(255, &memory))
scan_right(mem, p) ==
    LET first == memchr(mem, p, TapeSize)
    IN  IF first # NoneIdx THEN first + p ELSE memchr(mem, 0, TapeSize)

\* memrchr(255, &memory[..ptr]).or_else(|| memrchr(255, &memory[ptr..]).map(|offset| offset + ptr))
scan_left(mem, p) ==
    LET first == memrchr(mem, 0, p)
        second == memrchr(mem, p, TapeSize)
    IN  IF first # NoneIdx THEN first
        ELSE IF second # NoneIdx THEN second + p ELSE NoneIdx

\* memory[ptr] = memory[ptr].overflowing_sub(1).0
anchor_dec(st) == TapeSet(st.memory, st.ptr, WrapU8(TapeGet(st.memory, st.ptr) - 1))

exec_AnchorRight(st, inst) ==
    IF TapeGet(st.memory, st.ptr) = 0
    THEN [st EXCEPT !.ip = st.ip + 1, !.touched = {st.ptr}]
    ELSE anchor_finish(st, anchor_dec(st), scan_right(anchor_dec(st), st.ptr))

exec_AnchorLeft(st, inst) ==
    IF TapeGet(st.memory, st.ptr) = 0
    THEN [st EXCEPT !.ip = st.ip + 1, !.touched = {st.ptr}]
    ELSE anchor_finish(st, anchor_dec(st), scan_left(anchor_dec(st), st.ptr))

\* the match on the instruction at ip
exec(st, prog, checks) ==
    LET inst == At(prog, st.ip)
    IN  CASE inst.op = "Shift" -> exec_Shift(st, inst)
          [] inst.op = "Arithmetic" -> exec_Arithmetic(st, inst)
          [] inst.op = "LoopStart" -> exec_LoopStart(st, inst)
          [] inst.op = "LoopEnd" -> exec_LoopEnd(st, inst)
          [] inst.op = "Input" -> exec_Input(st, inst)
          [] inst.op = "Output" -> exec_Output(st, inst)
          [] inst.op = "Zero" -> exec_Zero(st, inst)
          [] inst.op = "Multiply" -> exec_Multiply(st, inst, checks)
          [] inst.op = "Move" -> exec_Move(st, inst, checks)
          [] inst.op = "AnchorRight" -> exec_AnchorRight(st, inst)
          [] inst.op = "AnchorLeft" -> exec_AnchorLeft(st, inst)

\* an index outside the vector panics
in_tape(S) == \A i \in S : 0 <= i /\ i < TapeSize

\* one turn of `while ip < insts.len()`
interp_step(st, prog, checks) ==
    IF st.status # "running" THEN st
    ELSE IF ~(st.ip < Len(prog)) THEN [st EXCEPT !.status = "halted", !.touched = {}]
    ELSE LET t == exec(st, prog, checks)
         IN  IF in_tape(t.touched) THEN t
             ELSE [st EXCEPT !.status = "index_panic", !.touched = t.touched]

interp_start(input) ==
    [memory |-> EmptyTape, ptr |-> 0, ip |-> 0, out |-> <<>>, inp |-> input,
     status |-> "running", touched |-> {}]

\* the while loop, cut off after 8 * fuel turns
RECURSIVE interp_run(_, _, _, _)
interp_run(st, prog, checks, fuel) ==
    IF st.status # "running" THEN st
    ELSE IF fuel = 0 THEN [st EXCEPT !.status = "out_of_fuel"]
    ELSE interp_run(Iter8(LAMBDA t : interp_step(t, prog, checks), st), prog, checks, fuel - 1)

interpret(chunks, input, checks, fuel) ==
    interp_run(interp_start(input), into_iter(chunks), checks, fuel)

(***************************************************************************)
(* to_asm (asm.rs 8-277): the listing is a sequence of lines, one per      *)
(* writeln! of an instruction; a line is its mnemonic and its operand.     *)
(* Labels o<n> and c<n> are <<"o", n>> and <<"c", n>>.  The routines at    *)
(* the end of the text (asm.rs 82-273) are the same for every program but  *)
(* for link_libc, and are modelled by the machine below.                   *)
(***************************************************************************)
line(op, arg) == [op |-> op, arg |-> arg]

\* a.abs() on i8: -128 has no absolute value in i8; a build with overflow
\* checks panics, the other returns -128
I8Abs(a, checks) ==
    IF a = I8_MIN
    THEN IF checks THEN [panic |-> TRUE, val |-> 0] ELSE [panic |-> FALSE, val |-> I8_MIN]
    ELSE [panic |-> FALSE, val |-> IF a < 0 THEN -a ELSE a]

Abs(a) == IF a < 0 THEN -a ELSE a

\* the lines one instruction adds (asm.rs 26-79)
asm_lines(inst, current_label, opening_label, checks) ==
    CASE inst.op = "Shift" ->
           <<line(IF inst.amount < 0 THEN "sub r8" ELSE "add r8", Abs(inst.amount)),
             line("and r8", PtrMask)>>
      [] inst.op = "Arithmetic" ->
           <<line(IF inst.amount < 0 THEN "sub byte" ELSE "add byte",
                  I8Abs(inst.amount, checks).val)>>
      [] inst.op = "LoopStart" ->
           <<line("label", <<"o", current_label>>), line("cmp byte", 0),
             line("jz", <<"c", current_label>>)>>
      [] inst.op = "LoopEnd" ->
           <<line("jmp", <<"o", opening_label>>), line("label", <<"c", opening_label>>)>>
      [] inst.op = "Input" -> <<line("call", "i")>>
      [] inst.op = "Output" -> <<line("call", "o")>>
      [] inst.op = "Zero" -> <<line("call", "z")>>
      [] inst.op = "Multiply" ->
           <<line("mov r13b", inst.amount), line("mov r12", Abs(inst.output_offset)),
             line("call", IF inst.output_offset > 0 THEN "m" ELSE "ms")>>
      [] inst.op = "Move" ->
           <<line("mov r12", Abs(inst.output_offset)),
             line("call", IF inst.output_offset > 0 THEN "M" ELSE "Ms")>>
      [] inst.op = "AnchorRight" -> <<line("call", "r")>>
      [] inst.op = "AnchorLeft" -> <<line("call", "l")>>

\* one turn of `for inst in ir`: w.i is the position, w.label_stack and
\* w.current_label are the locals of to_asm
to_asm_step(v, w, checks) ==
    IF w.status # "running" THEN w
    ELSE IF ~(w.i < Len(v)) THEN [w EXCEPT !.status = "done"]
    ELSE LET inst == At(v, w.i)
         IN  IF inst.op = "LoopEnd" /\ w.label_stack = <<>>
             THEN [w EXCEPT !.status = "unreachable"]
             ELSE IF inst.op = "Arithmetic" /\ I8Abs(inst.amount, checks).panic
             THEN [w EXCEPT !.status = "abs_panic"]
             ELSE LET opening_label == IF inst.op = "LoopEnd" THEN Head(w.label_stack) ELSE 0
                  IN  [w EXCEPT
                         !.listing = w.listing \o
                                     asm_lines(inst, w.current_label, opening_label, checks),
                         !.label_stack =
                             IF inst.op = "LoopStart" THEN <<w.current_label>> \o w.label_stack
                             ELSE IF inst.op = "LoopEnd" THEN Tail(w.label_stack)
                             ELSE w.label_stack,
                         !.current_label =
                             IF inst.op = "LoopStart" THEN w.current_label + 1
                             ELSE w.current_label,
                         !.i = w.i + 1]

RECURSIVE to_asm_run(_, _, _)
to_asm_run(v, w, checks) ==
    IF w.status # "running" THEN w
    ELSE to_asm_run(v, Iter8(LAMBDA t : to_asm_step(v, t, checks), w), checks)

\* the text: the program's lines, then the exit syscall (asm.rs 84-86)
to_asm(chunks, checks) ==
    LET w == to_asm_run(into_iter(chunks),
                        [i |-> 0, listing |-> <<>>, label_stack |-> <<>>,
                         current_label |-> 0, status |-> "running"], checks)
    IN  [status |-> w.status, listing |-> Append(w.listing, line("exit", 0))]

(***************************************************************************)
(* The machine that runs the text: r8 is the tape pointer, zf the zero     *)
(* flag, r12 and r13b the arguments of the routines.  A call of a routine  *)
(* is one step.                                                            *)
(***************************************************************************)
\* the address of a label
find_label(text, name) ==
    SetMin({k \in 0..(Len(text) - 1) : At(text, k).op = "label" /\ At(text, k).arg = name})

\* m / ms / M / Ms: add byte [tape + dest], value; mov byte [tape + r8], 0
asm_add_into(m, dest, value) ==
    [m EXCEPT !.memory = TapeSet(TapeSet(m.memory, dest,
                                         WrapU8(TapeGet(m.memory, dest) + value)), m.r8, 0)]

\* anchor_done / anchor_end: r8 = the cell found; mov byte [tape + r8], 0
asm_anchor_done(m, mem, anchor) ==
    [m EXCEPT !.memory = TapeSet(mem, anchor, 0), !.r8 = anchor]

\* halting_problem_solved_100_percent_working_1936: write the message and
\* exit(1); the status stands for both
asm_halting(m, mem) ==
    [m EXCEPT !.memory = mem, !.status = "infinite_loop"]

\* r and l with libc (asm.rs 164-202): memchr / memrchr over 0xFFFF - r8
\* bytes from tape + r8, and over r8 bytes from tape
asm_r_libc(m, mem) ==
    LET first == memchr(mem, m.r8, m.r8 + (PtrMask - m.r8))
        wrap == memchr(mem, 0, m.r8)
    IN  IF first # NoneIdx THEN asm_anchor_done(m, mem, m.r8 + first)
        ELSE IF wrap # NoneIdx THEN asm_anchor_done(m, mem, wrap)
        ELSE asm_halting(m, mem)

asm_l_libc(m, mem) ==
    LET first == memrchr(mem, 0, m.r8)
        wrap == memrchr(mem, m.r8, m.r8 + (PtrMask - m.r8))
    IN  IF first # NoneIdx THEN asm_anchor_done(m, mem, first)
        ELSE IF wrap # NoneIdx THEN asm_anchor_done(m, mem, m.r8 + wrap)
        ELSE asm_halting(m, mem)

\* r_glide and l_glide without libc (asm.rs 242-257) run to their end: the
\* first cell holding 255 that the glide meets, or no end at all
asm_glide(m, mem, dir) ==
    LET S == {q \in DOMAIN mem : mem[q] = Anchor}
        dist(q) == IF q = m.r8 THEN TapeSize ELSE ((q - m.r8) * dir) % TapeSize
    IN  IF S = {} THEN [m EXCEPT !.memory = mem, !.status = "glide_forever"]
        ELSE asm_anchor_done(m, mem,
                             CHOOSE q \in S : \A r \in S : dist(q) <= dist(r))

\* call r / call l: anchor_start first
asm_anchor(m, dir, libc) ==
    IF TapeGet(m.memory, m.r8) = 0 THEN m
    ELSE LET mem == TapeSet(m.memory, m.r8, WrapU8(TapeGet(m.memory, m.r8) - 1))
         IN  IF ~libc THEN asm_glide(m, mem, dir)
             ELSE IF dir = 1 THEN asm_r_libc(m, mem) ELSE asm_l_libc(m, mem)

\* the routines (asm.rs 91-155)
asm_call(m, f, libc) ==
    CASE f = "i" ->
           IF m.inp = <<>> THEN m
           ELSE [m EXCEPT !.memory = TapeSet(m.memory, m.r8, Head(m.inp)), !.inp = Tail(m.inp)]
      [] f = "o" -> [m EXCEPT !.out = Append(m.out, TapeGet(m.memory, m.r8))]
      [] f = "z" -> [m EXCEPT !.memory = TapeSet(m.memory, m.r8, 0)]
      [] f = "m" ->
           asm_add_into(m, mask16(m.r12 + m.r8), WrapU8(WrapU8(m.r13b) * TapeGet(m.memory, m.r8)))
      [] f = "ms" ->
           asm_add_into(m, mask16(m.r8 - m.r12), WrapU8(WrapU8(m.r13b) * TapeGet(m.memory, m.r8)))
      [] f = "M" -> asm_add_into(m, mask16(m.r12 + m.r8), TapeGet(m.memory, m.r8))
      [] f = "Ms" -> asm_add_into(m, mask16(m.r8 - m.r12), TapeGet(m.memory, m.r8))
      [] f = "r" -> asm_anchor(m, 1, libc)
      [] f = "l" -> asm_anchor(m, -1, libc)

\* one instruction of the text
asm_exec(m, text, libc) ==
    LET l == At(text, m.ip)
        next == [m EXCEPT !.ip = m.ip + 1]
    IN  CASE l.op = "add r8" -> [next EXCEPT !.r8 = m.r8 + l.arg]
          [] l.op = "sub r8" -> [next EXCEPT !.r8 = m.r8 - l.arg]
          [] l.op = "and r8" -> [next EXCEPT !.r8 = m.r8 % (l.arg + 1)]
          [] l.op = "add byte" ->
               [next EXCEPT !.memory = TapeSet(m.memory, m.r8,
                                               WrapU8(TapeGet(m.memory, m.r8) + l.arg))]
          [] l.op = "sub byte" ->
               [next EXCEPT !.memory = TapeSet(m.memory, m.r8,
                                               WrapU8(TapeGet(m.memory, m.r8) - l.arg))]
          [] l.op = "label" -> next
          [] l.op = "cmp byte" -> [next EXCEPT !.zf = (TapeGet(m.memory, m.r8) = l.arg)]
          [] l.op = "jz" -> IF m.zf THEN [m EXCEPT !.ip = find_label(text, l.arg)] ELSE next
          [] l.op = "jmp" -> [m EXCEPT !.ip = find_label(text, l.arg)]
          [] l.op = "mov r13b" -> [next EXCEPT !.r13b = l.arg]
          [] l.op = "mov r12" -> [next EXCEPT !.r12 = l.arg]
          [] l.op = "call" ->
               LET t == asm_call(m, l.arg, libc)
               IN  IF t.status = "running" THEN [t EXCEPT !.ip = m.ip + 1] ELSE t
          [] l.op = "exit" -> [m EXCEPT !.status = "exited"]

asm_step(m, text, libc) ==
    IF m.status # "running" THEN m ELSE asm_exec(m, text, libc)

\* _start: xor r8, r8 on a zeroed tape
asm_start(input) ==
    [memory |-> EmptyTape, r8 |-> 0, r12 |-> 0, r13b |-> 0, zf |-> FALSE, ip |-> 0,
     out |-> <<>>, inp |-> input, status |-> "running"]

\* the run of the text, cut off after 8 * fuel instructions
RECURSIVE asm_run(_, _, _, _)
asm_run(m, text, libc, fuel) ==
    IF m.status # "running" THEN m
    ELSE IF fuel = 0 THEN [m EXCEPT !.status = "out_of_fuel"]
    ELSE asm_run(Iter8(LAMBDA t : asm_step(t, text, libc), m), text, libc, fuel - 1)

(***************************************************************************)
(* go (cranelift.rs 59-289): the function built for the JIT and the AOT    *)
(* object, as the sequence of its instructions in layout order.  A block   *)
(* is <<"start", n>>, <<"body", n>> or <<"after", n>> for the n-th loop;   *)
(* the instructions built for an IR instruction other than a bracket are   *)
(* kept together as one element tagged with that instruction.              *)
(***************************************************************************)
clif_insts(inst, n, top) ==
    CASE inst.op = "LoopStart" ->
           <<line("jump", <<"start", n>>), line("block", <<"start", n>>),
             line("brif", <<"after", n>>), line("block", <<"body", n>>)>>
      [] inst.op = "LoopEnd" ->
           <<line("jump", <<"start", top>>), line("block", <<"after", top>>)>>
      [] OTHER -> <<line("inst", inst)>>

\* one turn of `for inst in ir`: w.loops is the stack of open loops.  The
\* anchor arm leaves main_block without a terminator when it switches to
\* short_circuit (cranelift.rs 252-275), which the builder or the verifier
\* refuses.
go_step(v, w) ==
    IF w.status # "running" THEN w
    ELSE IF ~(w.i < Len(v)) THEN [w EXCEPT !.status = "done"]
    ELSE LET inst == At(v, w.i)
         IN  IF inst.op = "LoopEnd" /\ w.loops = <<>>
             THEN [w EXCEPT !.status = "unreachable"]
             ELSE IF inst.op \in {"AnchorRight", "AnchorLeft"}
             THEN [w EXCEPT !.status = "unfilled_block"]
             ELSE [w EXCEPT
                     !.func = w.func \o
                              clif_insts(inst, w.blocks,
                                         IF inst.op = "LoopEnd" THEN Head(w.loops) ELSE 0),
                     !.loops = IF inst.op = "LoopStart" THEN <<w.blocks>> \o w.loops
                               ELSE IF inst.op = "LoopEnd" THEN Tail(w.loops)
                               ELSE w.loops,
                     !.blocks = IF inst.op = "LoopStart" THEN w.blocks + 1 ELSE w.blocks,
                     !.i = w.i + 1]

RECURSIVE go_run(_, _)
go_run(v, w) ==
    IF w.status # "running" THEN w ELSE go_run(v, Iter8(LAMBDA t : go_step(v, t), w))

\* the function: the program's instructions, then return_ (cranelift.rs 281)
go(chunks) ==
    LET w == go_run(into_iter(chunks),
                    [i |-> 0, func |-> <<>>, loops |-> <<>>, blocks |-> 0,
                     status |-> "running"])
    IN  [status |-> w.status, func |-> Append(w.func, line("return", 0))]

\* the address of a block
find_block(func, name) ==
    SetMin({k \in 0..(Len(func) - 1) : At(func, k).op = "block" /\ At(func, k).arg = name})

\* Multiply and Move (cranelift.rs 187-235): the source cell is loaded and
\* zeroed, then the cell at addr + output_offset is loaded, added to and
\* stored.  The address is not masked: outside the tape the access either
\* faults or reads and writes memory that is not the tape (oob).
clif_add_into(m, output_offset, value, oob) ==
    LET zeroed == TapeSet(m.memory, m.ptr, 0)
        output_addr == m.ptr + output_offset
        accessed == m.touched \cup {m.ptr, output_addr}
    IN  IF output_addr \in 0..(TapeSize - 1)
        THEN [m EXCEPT !.memory = TapeSet(zeroed, output_addr,
                                          WrapU8(TapeGet(zeroed, output_addr) + value)),
                       !.touched = accessed]
        ELSE IF oob = "fault"
        THEN [m EXCEPT !.memory = zeroed, !.status = "segfault", !.touched = accessed]
        ELSE [m EXCEPT !.memory = zeroed, !.touched = accessed]

\* the instructions built for one IR instruction
clif_inst(m, inst, oob) ==
    CASE inst.op = "Shift" -> [m EXCEPT !.ptr = mask16(m.ptr + inst.amount)]
      [] inst.op = "Arithmetic" ->
           [m EXCEPT !.memory = TapeSet(m.memory, m.ptr,
                                        WrapU8(TapeGet(m.memory, m.ptr) + inst.amount)),
                     !.touched = m.touched \cup {m.ptr}]
      [] inst.op = "Input" ->
           IF m.inp = <<>>
           THEN [m EXCEPT !.memory = TapeSet(m.memory, m.ptr, 255),
                          !.touched = m.touched \cup {m.ptr}]
           ELSE [m EXCEPT !.memory = TapeSet(m.memory, m.ptr, Head(m.inp)), !.inp = Tail(m.inp),
                          !.touched = m.touched \cup {m.ptr}]
      [] inst.op = "Output" ->
           [m EXCEPT !.out = Append(m.out, TapeGet(m.memory, m.ptr)),
                     !.touched = m.touched \cup {m.ptr}]
      [] inst.op = "Zero" ->
           [m EXCEPT !.memory = TapeSet(m.memory, m.ptr, 0),
                     !.touched = m.touched \cup {m.ptr}]
      [] inst.op = "Multiply" ->
           clif_add_into(m, inst.output_offset,
                         WrapU8(TapeGet(m.memory, m.ptr) * WrapU8(inst.amount)), oob)
      [] inst.op = "Move" ->
           clif_add_into(m, inst.output_offset, TapeGet(m.memory, m.ptr), oob)

clif_exec(m, func, oob) ==
    LET l == At(func, m.ip)
        next == [m EXCEPT !.ip = m.ip + 1]
    IN  CASE l.op = "jump" -> [m EXCEPT !.ip = find_block(func, l.arg)]
          [] l.op = "block" -> next
          [] l.op = "brif" ->
               IF TapeGet(m.memory, m.ptr) # 0 THEN next
               ELSE [m EXCEPT !.ip = find_block(func, l.arg)]
          [] l.op = "inst" ->
               LET t == clif_inst(m, l.arg, oob)
               IN  IF t.status = "running" THEN [t EXCEPT !.ip = m.ip + 1] ELSE t
          [] l.op = "return" -> [m EXCEPT !.status = "exited"]

clif_step(m, func, oob) ==
    IF m.status # "running" THEN m ELSE clif_exec(m, func, oob)

\* entry: tape_ptr = 0 on a zero-initialised tape (cranelift.rs 70-78);
\* touched collects the addresses, relative to the tape, that the loads and
\* stores of the run use
clif_start(input) ==
    [memory |-> EmptyTape, ptr |-> 0, ip |-> 0, out |-> <<>>, inp |-> input,
     touched |-> {}, status |-> "running"]

RECURSIVE clif_run(_, _, _, _)
clif_run(m, func, oob, fuel) ==
    IF m.status # "running" THEN m
    ELSE IF fuel = 0 THEN [m EXCEPT !.status = "out_of_fuel"]
    ELSE clif_run(Iter8(LAMBDA t : clif_step(t, func, oob), m), func, oob, fuel - 1)

(***************************************************************************)
(* Inputs of the model: source texts are concatenations of at most         *)
(* MaxFrags fragments; a run of I8_MAX - 1 '+' and a run of -I8_MIN '-'    *)
(* bring the fusion guard of pass 1 to its limits.                         *)
(***************************************************************************)
Fragments ==
    { <<"+">>, <<"-">>, <<">">>, <<"<">>, <<"[">>, <<"]">>, <<".">>, <<"#">>,
      <<",", ">", ",">>,
      <<"[", "<", "+", ">", "-", "]">>,
      <<"[", "<", "+", "+", ">", "-", "]">>,
      <<"[", "-", ">", "+", "]">>,
      <<"[", "-", "<", "+", "]">>,
      <<"[", "-", "]">>,
      <<"[", ".", "]">>,
      <<">", "+", "-", "<">>,
      Rep("+", I8_MAX - 1),
      Rep("-", -I8_MIN) }

Sources == { Flatten(f) : f \in UNION { [1..n -> Fragments] : n \in 0..MaxFrags } }

Inputs == { <<>>, <<255, 1>>, <<1, 255>>, <<2, 3>> }

(***************************************************************************)
(* The driver: moonshine_impl with --interpret (main.rs 91-105)            *)
(***************************************************************************)
Init ==
    /\ code \in Sources
    /\ overflow_checks \in BOOLEAN
    /\ pc = "start"
    /\ ir = <<>>
    /\ pruned = 0
    /\ err = [n |-> 0, side |-> "none"]
    /\ stdin = <<>>
    /\ memory = EmptyTape
    /\ ptr = 0
    /\ ip = 0
    /\ out = <<>>
    /\ inp = <<>>
    /\ touched = {}
    /\ insts = <<>>
    /\ backend = "interpret"
    /\ listing = <<>>
    /\ stack = <<>>
    /\ chunk_cap = ChunkSize
    /\ idx = 0

interp_vars == <<stdin, memory, ptr, ip, out, inp, touched, insts>>

backend_vars == <<backend, listing, stack, chunk_cap, idx>>

\* mutant: the verifier's result is not propagated
Verify_unchecked ==
    /\ pc = "start"
    /\ pc' = "verified"
    /\ err' = [n |-> verify(code).n, side |-> verify(code).side]
    /\ UNCHANGED <<code, overflow_checks, ir, pruned>>
    /\ UNCHANGED interp_vars
    /\ UNCHANGED backend_vars

\* ir::verify(&code)?
Verify ==
    /\ pc = "start"
    /\ LET r == verify(code)
       IN  /\ pc' = IF r.ok THEN "verified" ELSE "verify_failed"
           /\ err' = [n |-> r.n, side |-> r.side]
    /\ UNCHANGED <<code, overflow_checks, ir, pruned>>
    /\ UNCHANGED interp_vars
    /\ UNCHANGED backend_vars

\* let mut ir = ir::compile(code)
Compile ==
    /\ pc = "verified"
    /\ ir' = compile(code)
    /\ pc' = "compiled"
    /\ UNCHANGED <<code, overflow_checks, pruned, err>>
    /\ UNCHANGED interp_vars
    /\ UNCHANGED backend_vars

\* ir::collapse_repeated(&mut ir)
CollapseRepeated ==
    /\ pc = "compiled"
    /\ LET r == optimize_pass_1(ir, overflow_checks)
       IN  /\ ir' = r.ir
           /\ pruned' = r.pruned
           /\ pc' = IF r.status = "panic" THEN "pass1_panic" ELSE "fused"
    /\ UNCHANGED <<code, overflow_checks, err>>
    /\ UNCHANGED interp_vars
    /\ UNCHANGED backend_vars

\* mutant: idiom recognition on every path
idioms_selected_always(b) == TRUE

\* `if !jit` (main.rs 156): cranelift_impl leaves idiom recognition out when
\* it is asked for the JIT; moonshine_impl always calls it (main.rs 97)
idioms_selected(b) == b # "jit"

\* ir::collapse_idioms(&mut ir)
CollapseIdioms ==
    /\ pc = "fused"
    /\ LET r == IF idioms_selected(backend) THEN optimize_pass_2(ir)
                ELSE [ir |-> ir, pruned |-> pruned]
       IN  /\ ir' = r.ir
           /\ pruned' = r.pruned
    /\ pc' = "rewritten"
    /\ UNCHANGED <<code, overflow_checks, err>>
    /\ UNCHANGED interp_vars
    /\ UNCHANGED backend_vars

\* mutant: the driver goes on without matching
MatchBrackets_skipped ==
    /\ pc = "rewritten"
    /\ pc' = "matched"
    /\ UNCHANGED <<code, overflow_checks, ir, pruned, err>>
    /\ UNCHANGED interp_vars
    /\ UNCHANGED backend_vars

\* ir::match_brackets(&mut ir)?
MatchBrackets ==
    /\ pc = "rewritten"
    /\ backend = "interpret"
    /\ LET r == match_brackets(ir)
       IN  /\ ir' = r.ir
           /\ pc' = IF r.ok THEN "matched" ELSE "match_failed"
    /\ UNCHANGED <<code, overflow_checks, pruned, err>>
    /\ UNCHANGED interp_vars
    /\ UNCHANGED backend_vars

\* interpret::interpret(ir)? on some standard input
Interpret ==
    /\ pc = "matched"
    /\ \E input \in Inputs :
         LET r == interpret(ir, input, overflow_checks, Fuel)
         IN  /\ stdin' = input
             /\ insts' = into_iter(ir)
             /\ memory' = r.memory
             /\ ptr' = r.ptr
             /\ ip' = r.ip
             /\ out' = r.out
             /\ inp' = r.inp
             /\ touched' = r.touched
             /\ pc' = r.status
    /\ UNCHANGED <<code, overflow_checks, ir, pruned, err>>
    /\ UNCHANGED backend_vars

Next ==
    \/ Verify
    \/ Compile
    \/ CollapseRepeated
    \/ CollapseIdioms
    \/ MatchBrackets
    \/ Interpret

Spec == Init /\ [][Next]_vars

(***************************************************************************)
(* The driver with every backend (main.rs 91-186): moonshine_impl with     *)
(* interpret set ("interpret") or not ("asm", and "asm_libc" with          *)
(* --link-libc), cranelift_impl with jit set ("jit") or not ("aot").  The  *)
(* emitted text and the built function are run on some standard input.     *)
(***************************************************************************)
Backends == {"interpret", "asm", "asm_libc", "jit", "aot"}

DriverFragments ==
    { <<"+">>, <<"<">>, <<".">>, <<"[">>, <<"]">>,
      <<",", ">", ",">>,
      <<"[", "<", "+", ">", "-", "]">>,
      <<"[", ">", "+", "+", "<", "-", "]">>,
      <<"[", "-", "]">>,
      <<"[", "-", ">", "+", "]">>,
      Rep("-", -I8_MIN) }

DriverSources == { Flatten(f) : f \in UNION { [1..n -> DriverFragments] : n \in 0..MaxFrags } }

InitDriver ==
    /\ code \in DriverSources
    /\ overflow_checks \in BOOLEAN
    /\ backend \in Backends
    /\ pc = "start"
    /\ ir = <<>>
    /\ pruned = 0
    /\ err = [n |-> 0, side |-> "none"]
    /\ stdin = <<>>
    /\ memory = EmptyTape
    /\ ptr = 0
    /\ ip = 0
    /\ out = <<>>
    /\ inp = <<>>
    /\ touched = {}
    /\ insts = <<>>
    /\ listing = <<>>
    /\ stack = <<>>
    /\ chunk_cap = ChunkSize
    /\ idx = 0

\* asm::to_asm(link_libc, ir, &mut file) (main.rs 111)
ToAsm ==
    /\ pc = "rewritten"
    /\ backend \in {"asm", "asm_libc"}
    /\ LET r == to_asm(ir, overflow_checks)
       IN  /\ listing' = r.listing
           /\ pc' = IF r.status = "done" THEN "assembled" ELSE r.status
    /\ UNCHANGED <<code, overflow_checks, ir, pruned, err, backend, stack, chunk_cap, idx>>
    /\ UNCHANGED interp_vars

\* the assembled and linked text, run on some standard input
RunAsm ==
    /\ pc = "assembled"
    /\ \E input \in Inputs :
         LET r == asm_run(asm_start(input), listing, backend = "asm_libc", Fuel)
         IN  /\ stdin' = input
             /\ memory' = r.memory
             /\ ptr' = r.r8
             /\ ip' = r.ip
             /\ out' = r.out
             /\ inp' = r.inp
             /\ pc' = r.status
    /\ UNCHANGED <<code, overflow_checks, ir, pruned, err, touched, insts>>
    /\ UNCHANGED backend_vars

\* cranelift::jit(ir) / cranelift::aot(ir, ..) (main.rs 160-163): go builds
\* the function
Cranelift ==
    /\ pc = "rewritten"
    /\ backend \in {"jit", "aot"}
    /\ LET r == go(ir)
       IN  /\ listing' = r.func
           /\ pc' = IF r.status = "done" THEN "built" ELSE r.status
    /\ UNCHANGED <<code, overflow_checks, ir, pruned, err, backend, stack, chunk_cap, idx>>
    /\ UNCHANGED interp_vars

\* the built function, called by jit or run from the linked object, on
\* some standard input; an access outside the tape takes either outcome
RunFunction ==
    /\ pc = "built"
    /\ \E input \in Inputs, oob \in {"fault", "stray"} :
         LET r == clif_run(clif_start(input), listing, oob, Fuel)
         IN  /\ stdin' = input
             /\ memory' = r.memory
             /\ ptr' = r.ptr
             /\ ip' = r.ip
             /\ out' = r.out
             /\ inp' = r.inp
             /\ touched' = r.touched
             /\ pc' = r.status
    /\ UNCHANGED <<code, overflow_checks, ir, pruned, err, insts>>
    /\ UNCHANGED backend_vars

NextDriver ==
    \/ Verify
    \/ Compile
    \/ CollapseRepeated
    \/ CollapseIdioms
    \/ MatchBrackets
    \/ Interpret
    \/ ToAsm
    \/ RunAsm
    \/ Cranelift
    \/ RunFunction

SpecDriver == InitDriver /\ [][NextDriver]_vars

(***************************************************************************)
(* The parser on every text of at most MaxSrc characters over the eight    *)
(* instruction characters and a comment character: the driver up to the    *)
(* return of compile.                                                      *)
(***************************************************************************)
MaxSrc == 4

SourceChars == {">", "<", "+", "-", "[", "]", ",", ".", "#"}

ShortSources == UNION { [1..n -> SourceChars] : n \in 0..MaxSrc }

InitParse ==
    /\ code \in ShortSources
    /\ overflow_checks \in BOOLEAN
    /\ pc = "start"
    /\ ir = <<>>
    /\ pruned = 0
    /\ err = [n |-> 0, side |-> "none"]
    /\ stdin = <<>>
    /\ memory = EmptyTape
    /\ ptr = 0
    /\ ip = 0
    /\ out = <<>>
    /\ inp = <<>>
    /\ touched = {}
    /\ insts = <<>>
    /\ backend = "interpret"
    /\ listing = <<>>
    /\ stack = <<>>
    /\ chunk_cap = ChunkSize
    /\ idx = 0

NextParse ==
    \/ Verify
    \/ Compile

SpecParse == InitParse /\ [][NextParse]_vars

(***************************************************************************)
(* The chunk list on its own: ChunkList::new on a vector of at most        *)
(* MaxElems distinct elements with a chunk size of 1..MaxChunk, then any   *)
(* sequence of remove calls with an index below len().  insts is the same  *)
(* vector kept flat, from which the same positions are removed; pruned     *)
(* counts the calls.                                                       *)
(***************************************************************************)
MaxElems == 5
MaxChunk == 3

InitChunk ==
    /\ \E n \in 0..MaxElems, k \in 1..MaxChunk :
         /\ insts = [j \in 1..n |-> Shift(j)]
         /\ chunk_cap = k
         /\ ir = ChunkList_new(insts, k)
    /\ code = <<>>
    /\ overflow_checks = FALSE
    /\ pc = "chunked"
    /\ pruned = 0
    /\ err = [n |-> 0, side |-> "none"]
    /\ stdin = <<>>
    /\ memory = EmptyTape
    /\ ptr = 0
    /\ ip = 0
    /\ out = <<>>
    /\ inp = <<>>
    /\ touched = {}
    /\ backend = "interpret"
    /\ listing = <<>>
    /\ stack = <<>>
    /\ idx = 0

\* ir.remove(index), index < ir.len()
Remove ==
    /\ pc = "chunked"
    /\ \E index \in 0..(ChunkList_len(ir) - 1) :
         /\ ir' = ChunkList_remove(ir, index)
         /\ insts' = RemoveAt(insts, index)
    /\ pruned' = pruned + 1
    /\ UNCHANGED <<code, overflow_checks, pc, err, stdin, memory, ptr, ip, out, inp, touched>>
    /\ UNCHANGED backend_vars

NextChunk == Remove

SpecChunk == InitChunk /\ [][NextChunk]_vars

(***************************************************************************)
(* Pass 2 and the matcher on any sequence of primitives: the driver from   *)
(* the point where pass 1 has returned, started on an IR drawn from        *)
(* concatenations of at most MaxIRFrags windows: the idiom templates,      *)
(* near misses of each, and single primitives.                             *)
(***************************************************************************)
MaxIRFrags == 3

IRFragments ==
    { <<LoopStart>>, <<LoopEnd>>, <<Shift(1)>>, <<Arithmetic(-1)>>, <<Output>>,
      <<LoopStart, Shift(2), Arithmetic(1), Shift(-2), Arithmetic(-1), LoopEnd>>,
      <<LoopStart, Shift(-1), Arithmetic(3), Shift(1), Arithmetic(-1), LoopEnd>>,
      <<LoopStart, Shift(1), Arithmetic(0), Shift(-1), Arithmetic(-1), LoopEnd>>,
      <<LoopStart, Shift(1), Arithmetic(1), Shift(1), Arithmetic(-1), LoopEnd>>,
      <<LoopStart, Shift(1), Arithmetic(-2), Shift(-1), Arithmetic(-1), LoopEnd>>,
      <<LoopStart, Arithmetic(-1), Shift(1), Arithmetic(1), LoopEnd>>,
      <<LoopStart, Arithmetic(-1), Shift(-1), Arithmetic(1), LoopEnd>>,
      <<LoopStart, Arithmetic(-1), Shift(2), Arithmetic(1), LoopEnd>>,
      <<LoopStart, Arithmetic(2), LoopEnd>>,
      <<LoopStart, LoopStart, Output, LoopEnd, LoopEnd>>,
      <<LoopStart, Arithmetic(-1), Shift(1)>>,
      <<Arithmetic(1), LoopEnd>> }

IRSources == { Flatten(f) : f \in UNION { [1..n -> IRFragments] : n \in 0..MaxIRFrags } }

InitIR ==
    /\ code = <<>>
    /\ overflow_checks \in BOOLEAN
    /\ pc = "fused"
    /\ ir \in { ChunkList_new(v, ChunkSize) : v \in IRSources }
    /\ pruned = 0
    /\ err = [n |-> 0, side |-> "none"]
    /\ stdin = <<>>
    /\ memory = EmptyTape
    /\ ptr = 0
    /\ ip = 0
    /\ out = <<>>
    /\ inp = <<>>
    /\ touched = {}
    /\ insts = <<>>
    /\ backend = "interpret"
    /\ listing = <<>>
    /\ stack = <<>>
    /\ chunk_cap = ChunkSize
    /\ idx = 0

NextIR ==
    \/ CollapseIdioms
    \/ MatchBrackets

SpecIR == InitIR /\ [][NextIR]_vars

(***************************************************************************)
(* The interpreter as a state machine: one action per arm of the match in  *)
(* interpret, started on any matched IR sequence made of at most MaxProg   *)
(* pieces: single instructions, one loop, and an Input followed by a Move  *)
(* or a Multiply.  Output stops after MaxOut bytes.                        *)
(***************************************************************************)
MaxProg == 3
MaxOut == 2

InstrSet ==
    { Shift(-1), Shift(65537), Arithmetic(-1), LoopStart, LoopEnd, Input, Output, Zero,
      Multiply(3, -2), Move(-1), Move(65537), AnchorRight, AnchorLeft }

ProgFragments ==
    { <<x>> : x \in InstrSet } \cup
    { <<LoopStart, Output, Arithmetic(-1), LoopEnd>>,
      <<Input, Move(-1)>>,
      <<Input, Multiply(3, -2)>> }

Programs ==
    LET raw == { Flatten(f) : f \in UNION { [1..n -> ProgFragments] : n \in 0..MaxProg } }
        balanced == { v \in raw : Count(v, IsLoopStart) = Count(v, IsLoopEnd) }
    IN  { into_iter(match_brackets(<<v>>).ir) : v \in { w \in balanced : match_brackets(<<w>>).ok } }

InitInterp ==
    /\ code = <<>>
    /\ overflow_checks \in BOOLEAN
    /\ pc = "running"
    /\ ir = <<>>
    /\ pruned = 0
    /\ err = [n |-> 0, side |-> "none"]
    /\ stdin = <<1, 255>>
    /\ insts \in Programs
    /\ memory = EmptyTape
    /\ ptr = 0
    /\ ip = 0
    /\ out = <<>>
    /\ inp = stdin
    /\ touched = {}
    /\ backend = "interpret"
    /\ listing = <<>>
    /\ stack = <<>>
    /\ chunk_cap = ChunkSize
    /\ idx = 0

\* the interpreter's state as interp_step takes it
Current ==
    [memory |-> memory, ptr |-> ptr, ip |-> ip, out |-> out, inp |-> inp,
     status |-> pc, touched |-> touched]

\* the instruction about to run is of kind op
Running(op) == pc = "running" /\ ip < Len(insts) /\ At(insts, ip).op = op

\* the loop takes one turn
Turn ==
    /\ LET t == interp_step(Current, insts, overflow_checks)
       IN  /\ memory' = t.memory
           /\ ptr' = t.ptr
           /\ ip' = t.ip
           /\ out' = t.out
           /\ inp' = t.inp
           /\ touched' = t.touched
           /\ pc' = t.status
    /\ UNCHANGED <<code, overflow_checks, ir, pruned, err, stdin, insts>>
    /\ UNCHANGED backend_vars

ExecShift == Running("Shift") /\ Turn
ExecArithmetic == Running("Arithmetic") /\ Turn
ExecLoopStart == Running("LoopStart") /\ Turn
ExecLoopEnd == Running("LoopEnd") /\ Turn
ExecInput == Running("Input") /\ Turn
ExecOutput == Running("Output") /\ Len(out) < MaxOut /\ Turn
ExecZero == Running("Zero") /\ Turn
ExecMultiply == Running("Multiply") /\ Turn
ExecMove == Running("Move") /\ Turn
ExecAnchorRight == Running("AnchorRight") /\ Turn
ExecAnchorLeft == Running("AnchorLeft") /\ Turn

\* ip has left the vector: Ok(())
Halt ==
    /\ pc = "running"
    /\ ~(ip < Len(insts))
    /\ pc' = "halted"
    /\ touched' = {}
    /\ UNCHANGED <<code, overflow_checks, ir, pruned, err, stdin, insts,
                   memory, ptr, ip, out, inp>>
    /\ UNCHANGED backend_vars

NextInterp ==
    \/ ExecShift
    \/ ExecArithmetic
    \/ ExecLoopStart
    \/ ExecLoopEnd
    \/ ExecInput
    \/ ExecOutput
    \/ ExecZero
    \/ ExecMultiply
    \/ ExecMove
    \/ ExecAnchorRight
    \/ ExecAnchorLeft
    \/ Halt

SpecInterp == InitInterp /\ [][NextInterp]_vars

(***************************************************************************)
(* The primitive anchor loops in the interpreter: the program is a setup   *)
(* of at most MaxSetup Shift and Arithmetic instructions, which builds the *)
(* tape and places the pointer, followed by the loop that pass 2 rewrites  *)
(* to AnchorRight or AnchorLeft (ir.rs 151).  The run is followed while    *)
(* the pointer is within ScanWindow cells of cell 0 on the ring.           *)
(***************************************************************************)
MaxSetup == 4
ScanWindow == 4

SetupInstrs == { Arithmetic(-1), Arithmetic(1), Shift(1), Shift(-1) }

Setups == UNION { [1..n -> SetupInstrs] : n \in 0..MaxSetup }

\* the window of ir.rs 151 with dir = 1 or -1
primitive_anchor(dir) ==
    <<LoopStart, Arithmetic(-1), Shift(dir), Arithmetic(1), LoopEnd>>

AnchorPrograms ==
    { into_iter(match_brackets(<<pre \o primitive_anchor(dir)>>).ir) :
          pre \in Setups, dir \in {1, -1} }

InitAnchor ==
    /\ code = <<>>
    /\ overflow_checks \in BOOLEAN
    /\ pc = "running"
    /\ ir = <<>>
    /\ pruned = 0
    /\ err = [n |-> 0, side |-> "none"]
    /\ stdin = <<>>
    /\ insts \in AnchorPrograms
    /\ memory = EmptyTape
    /\ ptr = 0
    /\ ip = 0
    /\ out = <<>>
    /\ inp = stdin
    /\ touched = {}
    /\ backend = "interpret"
    /\ listing = <<>>
    /\ stack = <<>>
    /\ chunk_cap = ChunkSize
    /\ idx = 0

InWindow == ptr <= ScanWindow \/ ptr >= TapeSize - ScanWindow

ScanShift == InWindow /\ Running("Shift") /\ Turn
ScanArithmetic == InWindow /\ Running("Arithmetic") /\ Turn
ScanLoopStart == InWindow /\ Running("LoopStart") /\ Turn
ScanLoopEnd == InWindow /\ Running("LoopEnd") /\ Turn

NextAnchor ==
    \/ ScanShift
    \/ ScanArithmetic
    \/ ScanLoopStart
    \/ ScanLoopEnd
    \/ Halt

SpecAnchor == InitAnchor /\ [][NextAnchor]_vars

(***************************************************************************)
(* The anchor routines of the assembly emitted without libc (asm.rs        *)
(* 238-273), one action per label.  r8 is ptr, the tape is memory, pc is   *)
(* the label being executed and stack holds the return addresses; the      *)
(* routine is entered by `call r` or `call l` (asm.rs 74, 77), which has   *)
(* pushed the caller's return address.  The tape holds v at the pointer    *)
(* and possibly one 255 at most MaxGap cells ahead in the scan direction.  *)
(***************************************************************************)
MaxGap == 2

GlideEntries == {"r", "l"}

GlideTape(p, v, q) ==
    TapeSet(IF q = p THEN EmptyTape ELSE TapeSet(EmptyTape, q, Anchor), p, v)

InitGlide ==
    /\ code = <<>>
    /\ overflow_checks = FALSE
    /\ pc \in GlideEntries
    /\ ir = <<>>
    /\ pruned = 0
    /\ err = [n |-> 0, side |-> "none"]
    /\ stdin = <<>>
    /\ insts = <<>>
    /\ ptr \in {0, 1, TapeSize - 1}
    /\ \E v \in {0, 1}, g \in 0..MaxGap :
          memory = GlideTape(ptr, v, (ptr + (IF pc = "r" THEN g ELSE -g)) % TapeSize)
    /\ ip = 0
    /\ out = <<>>
    /\ inp = <<>>
    /\ touched = {}
    /\ backend = "asm"
    /\ listing = <<>>
    /\ stack = <<"caller">>
    /\ chunk_cap = ChunkSize
    /\ idx = 0

glide_frame == <<code, overflow_checks, ir, pruned, err, stdin, insts, ip, out, inp,
                 touched, backend, listing, chunk_cap, idx>>

\* r: call anchor_start / l: call anchor_start
call_anchor_start ==
    /\ pc \in GlideEntries
    /\ stack' = <<IF pc = "r" THEN "r_glide" ELSE "l_glide">> \o stack
    /\ pc' = "anchor_start"
    /\ UNCHANGED <<memory, ptr>>
    /\ UNCHANGED glide_frame

\* cmp byte [tape + r8], 0; jz anchor_short_circuit; sub byte [tape + r8], 1; ret
anchor_start ==
    /\ pc = "anchor_start"
    /\ IF TapeGet(memory, ptr) = 0
       THEN /\ pc' = "anchor_short_circuit"
            /\ UNCHANGED <<memory, stack>>
       ELSE /\ memory' = TapeSet(memory, ptr, WrapU8(TapeGet(memory, ptr) - 1))
            /\ pc' = Head(stack)
            /\ stack' = Tail(stack)
    /\ UNCHANGED ptr
    /\ UNCHANGED glide_frame

\* add rsp, 8; ret
anchor_short_circuit ==
    /\ pc = "anchor_short_circuit"
    /\ pc' = Head(Tail(stack))
    /\ stack' = Tail(Tail(stack))
    /\ UNCHANGED <<memory, ptr>>
    /\ UNCHANGED glide_frame

\* add r8, 1; and r8, 0xFFFF; cmp byte [tape + r8], 255; jne r_glide; jmp anchor_end
r_glide ==
    /\ pc = "r_glide"
    /\ ptr' = mask16(ptr + 1)
    /\ pc' = IF TapeGet(memory, ptr') # Anchor THEN "r_glide" ELSE "anchor_end"
    /\ UNCHANGED <<memory, stack>>
    /\ UNCHANGED glide_frame

\* sub r8, 1; and r8, 0xFFFF; cmp byte [tape + r8], 255; jne l_glide; jmp anchor_end
l_glide ==
    /\ pc = "l_glide"
    /\ ptr' = mask16(ptr - 1)
    /\ pc' = IF TapeGet(memory, ptr') # Anchor THEN "l_glide" ELSE "anchor_end"
    /\ UNCHANGED <<memory, stack>>
    /\ UNCHANGED glide_frame

\* mov byte [tape + r8], 0; ret
anchor_end ==
    /\ pc = "anchor_end"
    /\ memory' = TapeSet(memory, ptr, 0)
    /\ pc' = Head(stack)
    /\ stack' = Tail(stack)
    /\ UNCHANGED ptr
    /\ UNCHANGED glide_frame

NextGlide ==
    \/ call_anchor_start
    \/ anchor_start
    \/ anchor_short_circuit
    \/ r_glide
    \/ l_glide
    \/ anchor_end

\* the processor goes on executing instructions
SpecGlide == InitGlide /\ [][NextGlide]_vars /\ WF_vars(NextGlide)

(***************************************************************************)
(* The two passes one loop iteration at a time, each started on any IR     *)
(* sequence made of at most MaxPassFrags pieces: single instructions, the  *)
(* idiom loops, and an Arithmetic at the lower end of i8.  insts keeps the *)
(* sequence the pass was given.                                            *)
(***************************************************************************)
MaxPassFrags == 3

PassFragments ==
    { <<Shift(1)>>, <<Shift(-1)>>, <<Arithmetic(1)>>, <<Arithmetic(-1)>>, <<LoopStart>>,
      <<Arithmetic(I8_MIN)>>,
      <<LoopStart, Arithmetic(-1), LoopEnd>>,
      <<LoopStart, Arithmetic(-1), Shift(1), Arithmetic(1), LoopEnd>>,
      <<LoopStart, Shift(-1), Arithmetic(1), Shift(1), Arithmetic(-1), LoopEnd>> }

PassSources == { Flatten(f) : f \in UNION { [1..n -> PassFragments] : n \in 0..MaxPassFrags } }

InitPasses ==
    /\ code = <<>>
    /\ pc \in {"pass1", "pass2"}
    /\ overflow_checks \in (IF pc = "pass1" THEN BOOLEAN ELSE {FALSE})
    /\ insts \in PassSources
    /\ chunk_cap \in {2, ChunkSize}
    /\ ir = ChunkList_new(insts, chunk_cap)
    /\ idx = 0
    /\ pruned = 0
    /\ err = [n |-> 0, side |-> "none"]
    /\ stdin = <<>>
    /\ memory = EmptyTape
    /\ ptr = 0
    /\ ip = 0
    /\ out = <<>>
    /\ inp = <<>>
    /\ touched = {}
    /\ backend = "interpret"
    /\ listing = <<>>
    /\ stack = <<>>

pass_frame == <<code, overflow_checks, err, stdin, memory, ptr, ip, out, inp, touched, insts,
                backend, listing, stack, chunk_cap>>

\* the locals of the pass that is running
pass_locals == [ir |-> ir, idx |-> idx, pruned |-> pruned, status |-> "running"]

\* one iteration of the while loop of optimize_pass_1, or its exit
Pass1Step ==
    /\ pc = "pass1"
    /\ LET t == pass1_step(pass_locals, overflow_checks)
       IN  /\ ir' = t.ir
           /\ idx' = t.idx
           /\ pruned' = t.pruned
           /\ pc' = CASE t.status = "running" -> "pass1"
                      [] t.status = "done" -> "pass1_done"
                      [] t.status = "panic" -> "pass1_panic"
    /\ UNCHANGED pass_frame

\* one iteration of the while loop of optimize_pass_2, or its exit
Pass2Step ==
    /\ pc = "pass2"
    /\ LET t == pass2_step(pass_locals)
       IN  /\ ir' = t.ir
           /\ idx' = t.idx
           /\ pruned' = t.pruned
           /\ pc' = IF t.status = "running" THEN "pass2" ELSE "pass2_done"
    /\ UNCHANGED pass_frame

NextPasses ==
    \/ Pass1Step
    \/ Pass2Step

SpecPasses == InitPasses /\ [][NextPasses]_vars

(***************************************************************************)
(* The anchor routines of the text written with link_libc (asm.rs          *)
(* 164-231), entered by call r or call l.  The pointer is within           *)
(* LibcWindow cells of the seam of the ring, the cell under it holds 0, 1  *)
(* or 2, and at most MaxAnchors other cells within LibcWindow cells of     *)
(* the seam hold 255.  A routine runs to its ret, or to the exit(1) of     *)
(* halting_problem_solved_100_percent_working_1936, in one step.           *)
(***************************************************************************)
LibcWindow == 2
MaxAnchors == 2

SeamCells == (0..(LibcWindow - 1)) \cup ((TapeSize - LibcWindow)..(TapeSize - 1))

RECURSIVE LibcTape(_, _)
LibcTape(A, base) ==
    IF A = {} THEN base
    ELSE LET q == CHOOSE x \in A : TRUE
         IN  LibcTape(A \ {q}, TapeSet(base, q, Anchor))

InitLibc ==
    /\ code = <<>>
    /\ overflow_checks = FALSE
    /\ pc \in GlideEntries
    /\ ir = <<>>
    /\ pruned = 0
    /\ err = [n |-> 0, side |-> "none"]
    /\ stdin = <<>>
    /\ insts = <<>>
    /\ ptr \in SeamCells
    /\ \E v \in 0..2, A \in SUBSET (SeamCells \ {ptr}) :
          /\ Cardinality(A) <= MaxAnchors
          /\ memory = TapeSet(LibcTape(A, EmptyTape), ptr, v)
    /\ ip = 0
    /\ out = <<>>
    /\ inp = <<>>
    /\ touched = {}
    /\ backend = "asm_libc"
    /\ listing = <<>>
    /\ stack = <<"caller">>
    /\ chunk_cap = ChunkSize
    /\ idx = 0

\* the routine entered at pc, run to its end
libc_routine(dir) ==
    LET m == asm_anchor([asm_start(<<>>) EXCEPT !.memory = memory, !.r8 = ptr], dir, TRUE)
    IN  /\ memory' = m.memory
        /\ ptr' = m.r8
        /\ pc' = IF m.status = "running" THEN Head(stack) ELSE m.status
        /\ stack' = IF m.status = "running" THEN Tail(stack) ELSE stack
        /\ UNCHANGED glide_frame

\* r: (asm.rs 164-182)
r_libc == pc = "r" /\ libc_routine(1)

\* l: (asm.rs 184-202)
l_libc == pc = "l" /\ libc_routine(-1)

NextLibc ==
    \/ r_libc
    \/ l_libc

SpecLibc == InitLibc /\ [][NextLibc]_vars

(***************************************************************************)
(* Properties                                                              *)
(***************************************************************************)
flat == into_iter(ir)

\* C2: after pass 1 has run on the parser's output, no two adjacent
\* instructions are both Shift.
C2_NoAdjacentShifts ==
    pc = "fused" =>
        \A k \in 1..(Len(flat) - 1) : ~(IsShift(flat[k]) /\ IsShift(flat[k + 1]))

\* C3 as stated: after pass 1 has run on the parser's output, whatever the
\* length of the runs of '+' and '-', no two adjacent instructions are both
\* Arithmetic.
C3_NoAdjacentArithmetics ==
    pc = "fused" =>
        \A k \in 1..(Len(flat) - 1) : ~(IsArithmetic(flat[k]) /\ IsArithmetic(flat[k + 1]))

\* the parser's output holds no run of I8_MAX or more consecutive Arithmetic
\* instructions
ShortRuns(v) ==
    \A k \in 1..(Len(v) - I8_MAX + 1) : \E j \in k..(k + I8_MAX - 1) : ~IsArithmetic(v[j])

\* C3 as amended: when no run of consecutive '+'/'-' instructions in the
\* source is longer than 126, no two adjacent instructions are both
\* Arithmetic after pass 1.
C3_NoAdjacentArithmeticsShortRuns ==
    (pc = "fused" /\ ShortRuns(compile_chars(code))) =>
        \A k \in 1..(Len(flat) - 1) : ~(IsArithmetic(flat[k]) /\ IsArithmetic(flat[k + 1]))

\* a run of 126 '+' has been fused into one Arithmetic
C3_Witness ==
    /\ pc = "fused"
    /\ ShortRuns(compile_chars(code))
    /\ \E k \in 1..Len(flat) : flat[k] = Arithmetic(I8_MAX - 1)

\* C4: pass 1 applied to its own output removes nothing and changes no
\* payload.
C4_Pass1Idempotent ==
    pc = "fused" =>
        LET again == optimize_pass_1(ir, overflow_checks)
        IN  again.status = "done" /\ again.pruned = 0 /\ again.ir = ir

\* some window of v matches an idiom template
TemplateAt(v, i) ==
    \/ i + 5 < Len(v) /\ (is_move(SubSeq(v, i + 1, i + 6)) \/ is_multiply(SubSeq(v, i + 1, i + 6)))
    \/ i + 4 < Len(v) /\ is_anchor(SubSeq(v, i + 1, i + 5))
    \/ i + 2 < Len(v) /\ is_zero(SubSeq(v, i + 1, i + 3))

\* C5: after pass 2 has run on a sequence of primitives no window of the
\* result matches an idiom template, and pass 2 applied again changes
\* nothing.
C5_Pass2Idempotent ==
    pc = "rewritten" =>
        /\ \A i \in 0..(Len(flat) - 1) : ~TemplateAt(flat, i)
        /\ LET again == optimize_pass_2(ir)
           IN  again.pruned = 0 /\ again.ir = ir

\* pass 2 has rewritten a Move-shaped and an anchor-shaped window
C5_Witness ==
    /\ pc = "rewritten"
    /\ pruned >= 9
    /\ \E k \in 1..Len(flat) : flat[k].op \in {"Move", "Multiply"}
    /\ \E k \in 1..Len(flat) : flat[k].op \in {"AnchorRight", "AnchorLeft"}

\* the matcher's answer at 0-based position i
EndOf(v, i) == At(v, i).end_index
StartOf(v, j) == At(v, j).start_index
Starts(v) == {i \in 0..(Len(v) - 1) : IsLoopStart(At(v, i))}
Ends(v) == {j \in 0..(Len(v) - 1) : IsLoopEnd(At(v, j))}

\* C6: after a successful match of a sequence with as many LoopStart as
\* LoopEnd, every LoopStart at i holds an end index j > i where a LoopEnd
\* holds start index i, every LoopEnd is the partner of a LoopStart, and the
\* pairs nest.
C6_MatcherMutual ==
    (pc = "matched" /\ Count(flat, IsLoopStart) = Count(flat, IsLoopEnd)) =>
        /\ \A i \in Starts(flat) :
              /\ EndOf(flat, i) > i
              /\ EndOf(flat, i) \in Ends(flat)
              /\ StartOf(flat, EndOf(flat, i)) = i
        /\ \A j \in Ends(flat) :
              /\ StartOf(flat, j) \in Starts(flat)
              /\ EndOf(flat, StartOf(flat, j)) = j
        /\ \A i, k \in Starts(flat) :
              (i < k /\ k < EndOf(flat, i)) => EndOf(flat, k) < EndOf(flat, i)

\* a matched sequence with one loop inside another and one after it
C6_Witness ==
    /\ pc = "matched"
    /\ \E i, k \in Starts(flat) : i < k /\ EndOf(flat, k) < EndOf(flat, i)
    /\ \E i, k \in Starts(flat) : EndOf(flat, i) < k

\* C7: for a source the verifier accepts, the matcher's scan from every
\* LoopStart finds its LoopEnd: the match never fails.
C7_ScanAlwaysSucceeds == pc # "match_failed"

Opens(cs) == Cardinality({k \in 1..Len(cs) : cs[k] = "["})
Closes(cs) == Cardinality({k \in 1..Len(cs) : cs[k] = "]"})

\* C8: the verifier fails exactly when the numbers of '[' and ']' differ,
\* and then reports the absolute difference and the side in excess.
C8_VerifierReport ==
    pc # "start" =>
        /\ (pc = "verify_failed") <=> (Opens(code) # Closes(code))
        /\ (pc = "verify_failed" /\ Opens(code) > Closes(code)) =>
              (err.side = "opening" /\ err.n = Opens(code) - Closes(code))
        /\ (pc = "verify_failed" /\ Opens(code) < Closes(code)) =>
              (err.side = "closing" /\ err.n = Closes(code) - Opens(code))

\* one opening and two closing brackets: one unmatched closing bracket is
\* reported
C8_Witness ==
    /\ pc = "verify_failed"
    /\ Opens(code) = 1 /\ Closes(code) = 2
    /\ err = [n |-> 1, side |-> "closing"]

\* the brackets of v in order
Brackets(v) == SelectSeq(v, LAMBDA x : IsLoopStart(x) \/ IsLoopEnd(x))

IsIdiom(x) == x.op \in {"Zero", "Move", "Multiply", "AnchorRight", "AnchorLeft"}

\* a turn of pass 2 from s to t that rewrote a window took out one LoopStart
\* and one LoopEnd, the LoopEnd being the one the matcher's scan pairs with
\* the LoopStart at the cursor
RewriteRemovesPair(s, t) ==
    t.pruned > s.pruned =>
        /\ Count(into_iter(t.ir), IsLoopStart) = Count(into_iter(s.ir), IsLoopStart) - 1
        /\ Count(into_iter(t.ir), IsLoopEnd) = Count(into_iter(s.ir), IsLoopEnd) - 1
        /\ IsLoopStart(ChunkList_index(s.ir, s.idx))
        /\ match_scan(s.ir, s.idx) = s.idx + (t.pruned - s.pruned)

RECURSIVE EveryRewriteRemovesPair(_)
EveryRewriteRemovesPair(s) ==
    IF s.status # "running" THEN TRUE
    ELSE RewriteRemovesPair(s, pass2_step(s)) /\ EveryRewriteRemovesPair(pass2_step(s))

\* C9: for a source the verifier accepts, LoopStart and LoopEnd are equal in
\* number after parsing, after pass 1 and after pass 2; pass 1 leaves the
\* brackets as they are, and every rewrite of pass 2 removes one LoopStart
\* and the LoopEnd that matches it.
C9_BalancePreserved ==
    /\ pc \in {"compiled", "fused", "rewritten"} =>
          Count(flat, IsLoopStart) = Count(flat, IsLoopEnd)
    /\ pc = "fused" =>
          /\ Brackets(flat) = Brackets(compile_chars(code))
          /\ EveryRewriteRemovesPair([ir |-> ir, idx |-> 0, pruned |-> 0, status |-> "running"])
    /\ pc = "rewritten" =>
          Count(flat, IsLoopStart) + Count(flat, IsIdiom) = Opens(code)

\* pass 2 has rewritten a loop and left another loop in place
C9_Witness ==
    /\ pc = "rewritten"
    /\ Count(flat, IsIdiom) >= 1
    /\ Count(flat, IsLoopStart) >= 1
    /\ pruned > 0

\* the run of the parser's output, matched but not optimized
Primitive(input) ==
    LET m == match_brackets(compile(code))
    IN  IF m.ok THEN interpret(m.ir, input, overflow_checks, Fuel)
        ELSE [interp_start(input) EXCEPT !.status = "match_failed"]

\* C1: when the run of the unoptimized program halts, the driver's run of
\* the optimized program halts without failure with the same output and
\* the same tape.
C1_SemanticPreservation ==
    /\ pc \in {"pass1_panic", "match_failed"} =>
          \A input \in Inputs : Primitive(input).status # "halted"
    /\ pc \in {"halted", "no_stdin", "infinite_loop", "overflow_panic",
               "index_panic", "out_of_fuel"} =>
          (Primitive(stdin).status = "halted" =>
              /\ pc = "halted"
              /\ out = Primitive(stdin).out
              /\ memory = Primitive(stdin).memory)

\* the same on a build without overflow checks
ReleaseSemanticPreservation == ~overflow_checks => C1_SemanticPreservation

\* C10: in every state of the interpreter the pointer and every tape index
\* read or written lie in 0..65535; Shift moves the pointer by its offset
\* modulo 65536 and Arithmetic adds its delta modulo 256.
C10_WrapDiscipline ==
    /\ ptr \in 0..(TapeSize - 1)
    /\ \A i \in touched : i \in 0..(TapeSize - 1)
    /\ pc # "index_panic"
    /\ Running("Shift") =>
          LET t == interp_step(Current, insts, overflow_checks)
          IN  /\ t.ptr \in 0..65535
              /\ (t.ptr - (ptr + At(insts, ip).amount)) % 65536 = 0
    /\ Running("Arithmetic") =>
          LET t == interp_step(Current, insts, overflow_checks)
          IN  /\ TapeGet(t.memory, ptr) \in 0..255
              /\ (TapeGet(t.memory, ptr) - (TapeGet(memory, ptr) + At(insts, ip).amount)) % 256 = 0

\* a Move with offset -1 has run at pointer 0 and written cell 65535
C10_Witness ==
    /\ ip >= 1
    /\ At(insts, ip - 1) = Move(-1)
    /\ touched = {0, 65535}
    /\ TapeGet(memory, 65535) = 255

\* C11: Move{o} leaves (d + v) mod 256 in the destination cell and 0 in the
\* source cell, Multiply{k, o} leaves (d + v * k) mod 256 and 0, and neither
\* fails on overflow, whatever the values d and v.
C11_WrappingAdd ==
    /\ Running("Move") =>
          LET t == interp_step(Current, insts, overflow_checks)
              np == dest_ptr(ptr, At(insts, ip).output_offset)
          IN  /\ t.status = "running"
              /\ np # ptr =>
                    TapeGet(t.memory, np) = (TapeGet(memory, np) + TapeGet(memory, ptr)) % 256
              /\ TapeGet(t.memory, ptr) = 0
    /\ Running("Multiply") =>
          LET t == interp_step(Current, insts, overflow_checks)
              np == dest_ptr(ptr, At(insts, ip).output_offset)
          IN  /\ t.status = "running"
              /\ np # ptr =>
                    TapeGet(t.memory, np) =
                        (TapeGet(memory, np) + TapeGet(memory, ptr) * At(insts, ip).amount) % 256
              /\ TapeGet(t.memory, ptr) = 0

\* the program ends with a primitive anchor loop
EndsWithAnchorLoop ==
    /\ Len(insts) >= 5
    /\ \E dir \in {1, -1} :
          [k \in 1..5 |-> insts[Len(insts) - 5 + k].op] =
              [k \in 1..5 |-> primitive_anchor(dir)[k].op]
          /\ At(insts, Len(insts) - 3) = Shift(dir)

AnchorDir == At(insts, Len(insts) - 3).amount

SetupOf == SubSeq(insts, 1, Len(insts) - 5)

\* the state in which the loop is entered
BeforeLoop == interp_run(interp_start(stdin), SetupOf, overflow_checks, Fuel)

\* the run of the same setup followed by the idiom instruction
IdiomRun ==
    interp_run(interp_start(stdin),
               Append(SetupOf, IF AnchorDir = 1 THEN AnchorRight ELSE AnchorLeft),
               overflow_checks, Fuel)

\* the cells other than p that hold 255
Anchors(mem, p) == {q \in DOMAIN mem : q # p /\ mem[q] = Anchor}

\* the number of cells from p to q in direction dir around the ring
Distance(p, q, dir) == ((q - p) * dir) % TapeSize

\* the nearest of them in direction dir
Nearest(mem, p, dir) ==
    CHOOSE q \in Anchors(mem, p) :
        \A r \in Anchors(mem, p) : Distance(p, q, dir) <= Distance(p, r, dir)

Exhausted ==
    /\ Running("AnchorRight") \/ Running("AnchorLeft")
    /\ TapeGet(memory, ptr) # 0
    /\ Anchors(memory, ptr) = {}

GlideExhausted ==
    /\ pc \in GlideEntries
    /\ TapeGet(memory, ptr) # 0
    /\ Anchors(memory, ptr) = {}

\* the routine has left its scan: it has returned to its caller or has gone
\* to report the infinite loop
GlideOver == pc \notin (GlideEntries \cup {"anchor_start", "r_glide", "l_glide", "anchor_end"})

\* C14: in the assembly emitted without libc, routine r or l entered on a
\* non-zero cell when no cell holds 255 eventually stops scanning (and
\* reports the infinite loop) instead of going round the ring for ever.
C14_GlideTerminates == GlideExhausted ~> GlideOver

(***************************************************************************)
(* Backends                                                                *)
(***************************************************************************)
\* the states in which a backend has been given the IR
Consumed ==
    pc \in {"matched", "halted", "no_stdin", "infinite_loop", "overflow_panic",
            "index_panic", "out_of_fuel", "assembled", "abs_panic", "unreachable",
            "glide_forever", "exited", "built", "unfilled_block", "segfault"}

\* the states in which a backend's run, or its build, is over
RunOver == Consumed /\ pc \notin {"matched", "assembled", "built", "out_of_fuel"}

\* the abstract machine on the IR the backend was given: the interpreter
\* with wrapping arithmetic
Reference ==
    LET m == match_brackets(ir)
    IN  IF m.ok THEN interpret(m.ir, stdin, FALSE, Fuel)
        ELSE [interp_start(stdin) EXCEPT !.status = "match_failed"]

\* C15: when the program handed to the backends terminates without anchor
\* failure and without reading past the end of its input, every backend's
\* run of it ends successfully with the same output bytes.
C15_BackendAgreement ==
    (RunOver /\ Reference.status = "halted") =>
        /\ pc \in {"halted", "exited"}
        /\ out = Reference.out

\* the parser's output after run fusion, and after idiom recognition on top
Fused == optimize_pass_1(compile(code), overflow_checks).ir
Rewritten == optimize_pass_2(Fused).ir

\* C16 as stated: whatever the backend, the IR it is given is the parser's
\* output after run fusion and then idiom recognition, with its brackets
\* matched exactly when the backend is the interpreter.
C16_BothPassesEveryPath ==
    Consumed =>
        ir = IF backend = "interpret" THEN match_brackets(Rewritten).ir ELSE Rewritten

\* C16: the interpreter is given the parser's output after run fusion,
\* idiom recognition and bracket matching, in that order; assembly emission
\* and AOT the same without matching; the JIT is given it after run fusion
\* alone.
C16_PassesPerPath ==
    Consumed =>
        ir = CASE backend = "interpret" -> match_brackets(Rewritten).ir
               [] backend = "jit" -> Fused
               [] OTHER -> Rewritten

\* the JIT has run a program in which idiom recognition would have
\* rewritten a loop, and another backend has been given the rewritten one
C16_Witness ==
    /\ pc = "exited"
    /\ backend = "jit"
    /\ Rewritten # Fused
    /\ ir = Fused
    /\ Count(flat, IsLoopStart) >= 1

(***************************************************************************)
(* Parsing                                                                 *)
(***************************************************************************)
InstructionChars == {">", "<", "+", "-", "[", "]", ",", "."}

\* the positions of the source that hold an instruction character
Occurrences == {j \in 1..Len(code) : code[j] \in InstructionChars}

\* the position of the k-th occurrence, counted from 1
Occurrence(k) ==
    CHOOSE j \in Occurrences : Cardinality({h \in Occurrences : h <= j}) = k

\* the primitive the claim assigns to an instruction character
PrimitiveOf(c) ==
    CASE c = ">" -> Shift(1)
      [] c = "<" -> Shift(-1)
      [] c = "+" -> Arithmetic(1)
      [] c = "-" -> Arithmetic(-1)
      [] c = "[" -> LoopStart
      [] c = "]" -> LoopEnd
      [] c = "," -> Input
      [] c = "." -> Output

\* C17: the parsed sequence has one element per occurrence of an
\* instruction character, the k-th element being the primitive of the k-th
\* occurrence; other characters add nothing and no idiom opcode appears.
C17_ParseIsOrderedFilter ==
    pc = "compiled" =>
        /\ Len(flat) = Cardinality(Occurrences)
        /\ \A k \in 1..Len(flat) : flat[k] = PrimitiveOf(code[Occurrence(k)])
        /\ Count(flat, IsIdiom) = 0

\* a source with a comment character between two instruction characters,
\* one of them ',', has been parsed
C17_Witness ==
    /\ pc = "compiled"
    /\ \E j \in 1..Len(code) :
         /\ j \notin Occurrences
         /\ \E h \in Occurrences : h < j
         /\ \E h \in Occurrences : h > j /\ code[h] = ","
    /\ Len(flat) >= 2

(***************************************************************************)
(* The chunk list                                                          *)
(***************************************************************************)
\* C18: after construction and any removals, len() is the flat vector's
\* length, index(i) is its i-th element for every i below len(), and
\* consuming iteration yields it in order, the flat vector having lost
\* exactly the elements at the removed positions.
C18_ChunkListRefinesVec ==
    pc = "chunked" =>
        /\ ChunkList_len(ir) = Len(insts)
        /\ \A i \in 0..(Len(insts) - 1) : ChunkList_index(ir, i) = At(insts, i)
        /\ into_iter(ir) = insts

\* elements have been removed from the inside of a list of several chunks,
\* the first of which has lost an element
C18_Witness ==
    /\ pc = "chunked"
    /\ pruned >= 2
    /\ Len(ir) >= 2
    /\ Len(ir[1]) < chunk_cap
    /\ Len(insts) >= 3
    /\ At(insts, 0) = Shift(1)
    /\ At(insts, Len(insts) - 1) = Shift(MaxElems)

\* the number of chunks ChunkList::new made
ChunksAtStart == ((Len(insts) + pruned) + chunk_cap - 1) \div chunk_cap

\* C19: every chunk of the list holds at least one and at most chunk_cap
\* elements, after construction and after any removals.
C19_ChunksNonEmptyBounded ==
    pc = "chunked" =>
        \A c \in 1..Len(ir) : Len(ir[c]) >= 1 /\ Len(ir[c]) <= chunk_cap

\* a removal has emptied a chunk of a list built with a chunk size of at
\* least 2, and the list has fewer chunks than it started with
C19_Witness ==
    /\ pc = "chunked"
    /\ chunk_cap >= 2
    /\ pruned >= 2
    /\ Len(ir) >= 1
    /\ Len(ir) < ChunksAtStart

(***************************************************************************)
(* Run fusion: zero sums                                                   *)
(***************************************************************************)
\* C20: after pass 1 has run once on the parser's output, no instruction
\* of the sequence is an Arithmetic with amount 0.
C20_NoZeroArithmetic ==
    pc = "fused" =>
        \A k \in 1..Len(flat) : ~(IsArithmetic(flat[k]) /\ flat[k].amount = 0)

\* pass 1 has run on a source in which a '+' is followed by a '-', has
\* removed both, and other instructions are left
C20_Witness ==
    /\ pc = "fused"
    /\ \E j \in 1..(Len(code) - 1) : code[j] = "+" /\ code[j + 1] = "-"
    /\ pruned >= 2
    /\ Len(flat) >= 1
    /\ Count(flat, IsArithmetic) = 0

(***************************************************************************)
(* Brackets in the backends                                                *)
(***************************************************************************)
\* C21: for a source the verifier accepts, neither to_asm nor go meets a
\* LoopEnd while its stack of open loops is empty.
C21_NoUnreachable == pc # "unreachable"

(***************************************************************************)
(* Tape addresses in the built function                                    *)
(***************************************************************************)
\* C22: every address the built function loads from or stores to lies
\* inside the tape, Move and Multiply destinations included.
C22_WritesInsideTape ==
    (backend \in {"jit", "aot"} /\ pc \in {"exited", "segfault", "out_of_fuel"}) =>
        in_tape(touched)

(***************************************************************************)
(* The anchor routines with libc                                           *)
(***************************************************************************)
\* the interpreter's anchor instruction run on the tape and pointer of the
\* state
InterpreterAnchor(dir) ==
    LET st == [interp_start(<<>>) EXCEPT !.memory = memory, !.ptr = ptr]
    IN  IF dir = 1 THEN exec_AnchorRight(st, AnchorRight) ELSE exec_AnchorLeft(st, AnchorLeft)

\* C23: when r or l is entered on a non-zero cell and some other cell of
\* the ring holds 255, the routine returns with the start cell one less,
\* the pointer on the nearest such cell in its direction, that cell zeroed
\* and nothing else changed, as the interpreter's anchor instruction does;
\* it does not report an infinite loop.
C23_LibcScansWholeRing ==
    [][(pc \in GlideEntries /\ TapeGet(memory, ptr) # 0 /\ Anchors(memory, ptr) # {}) =>
          LET dir == IF pc = "r" THEN 1 ELSE -1
              q == Nearest(memory, ptr, dir)
          IN  /\ pc' = "caller"
              /\ ptr' = q
              /\ memory' = TapeSet(TapeSet(memory, ptr, TapeGet(memory, ptr) - 1), q, 0)
              /\ memory' = InterpreterAnchor(dir).memory
              /\ ptr' = InterpreterAnchor(dir).ptr]_vars

(***************************************************************************)
(* Run fusion: the guard's addition                                        *)
(***************************************************************************)
\* the sum of the amounts of the Arithmetic instructions of v
RECURSIVE ArithmeticSum(_)
ArithmeticSum(v) ==
    IF v = <<>> THEN 0
    ELSE (IF IsArithmetic(Head(v)) THEN Head(v).amount ELSE 0) + ArithmeticSum(Tail(v))

\* the number of '+' of the source less the number of '-'
SourceSum ==
    Cardinality({k \in 1..Len(code) : code[k] = "+"})
      - Cardinality({k \in 1..Len(code) : code[k] = "-"})

\* C24: pass 1 run on the parser's output never overflows i8 in the guard's
\* amt1 + amt2, and the amounts it leaves add up to the true sum of the
\* deltas of the source.
C24_GuardSumInRange ==
    pc \in {"fused", "pass1_panic"} =>
        /\ pc = "fused"
        /\ ArithmeticSum(flat) = SourceSum

(***************************************************************************)
(* Progress of the passes                                                  *)
(***************************************************************************)
\* C25: every iteration of pass 1 either moves the cursor on by one and
\* leaves the sequence alone or keeps the cursor and shortens the sequence;
\* every iteration of pass 2 moves the cursor on by one; the cursor never
\* passes the end of the sequence, a pass stops only with the cursor (or,
\* in pass 1, the element after it) at the end, and the sequence is always
\* shorter than the one the pass was given by exactly the count of pruned.
C25_PassesProgress ==
    [][/\ (pc = "pass1" /\ pc' = "pass1") =>
            \/ idx' = idx + 1 /\ ir' = ir
            \/ idx' = idx /\ ChunkList_len(ir') < ChunkList_len(ir)
       /\ (pc = "pass2" /\ pc' = "pass2") =>
            /\ idx' = idx + 1
            /\ ChunkList_len(ir') <= ChunkList_len(ir)
       /\ pc' = "pass1_done" => (idx + 1 >= ChunkList_len(ir) /\ ir' = ir)
       /\ pc' = "pass2_done" => (idx >= ChunkList_len(ir) /\ ir' = ir)
       /\ pc' \in {"pass1", "pass2"} => idx < ChunkList_len(ir)
       /\ idx' <= ChunkList_len(ir')
       /\ pruned' = Len(insts) - ChunkList_len(ir')]_vars

\* pass 2 has come to its end after rewriting an idiom in a sequence that
\* still holds other instructions
C25_Witness ==
    /\ pc = "pass2_done"
    /\ pruned >= 4
    /\ idx = ChunkList_len(ir)
    /\ idx >= 2

====
